---- MODULE Spec2Model ----
(***************************************************************************)
(* A model of osa-mailer's entry aggregation and composition engine        *)
(* (src/src/entries.rs): e-mail identity, grouping and ordering of the     *)
(* entries (map_emails), the recursive accumulate-merge of their contexts  *)
(* (copy_and_accumulate) and the single/batch emission (compose_emails).   *)
(*                                                                         *)
(* Representation.  A string is the sequence of its bytes.  A JSON value   *)
(* is a one-field record whose field name is its variant: [num |-> n],     *)
(* [str |-> s], [arr |-> <<v1, ..>>], [obj |-> m], m a function from keys  *)
(* to values (serde_json::Map; two maps are equal when they hold the same  *)
(* key/value pairs).  A u32 is the tuple of its four bytes, most           *)
(* significant first.                                                      *)
(***************************************************************************)
EXTENDS Integers, Sequences, FiniteSets, TLC

VARIABLES
    unparsed_entries,        \* load_entries: the raw entries read, in arrival order
    parse_errors,            \* EntryParseResults.err
    entries_pool,            \* EntryParseResults.ok: the parsed entries, in arrival order
    pc,                      \* "raw", "loaded", "mapped", "group", "done"
    email_entries,           \* map_emails' result: E-mail ID -> entries
    pending,                 \* the groups compose_emails has not visited yet
    cur,                     \* the group being composed (its E-mail ID)
    visited,                 \* entries of the group already merged
    email,                   \* header of the group's first entry
    accumulated_context,     \* the group's accumulated context
    email_compose_method,    \* "Single" or "Batch"
    composed_emails,         \* the output vector
    template_data,           \* render: TemplateData (contents, file_path)
    context_data,            \* render: ContextData.context
    engine_detection,        \* render: DetectionMethod
    template_extension,      \* render: TemplateExtension
    in_memory_template,      \* render: the name the Tera arm registers the template under
    template,                \* render: the Template selected
    engine_input,            \* render: what a template engine was called with
    result,                  \* render: the Result returned
    exe_path,                \* RelativePath: what current_exe() gives
    rel_path,                \* RelativePath: the value (relative_path, full_path)
    base,                    \* RelativePath: the directory last joined to
    observed,                \* RelativePath: what as_ref and into() returned
    error_report,            \* ErrorReport (context, errors)
    message_builder,         \* send: MessageBuilder
    message,                 \* send: what MessageBuilder::build returned
    smtp_builder,            \* send: SmtpConnectionBuilder
    smtp_info,               \* send: what SmtpConnectionBuilder::build returned
    connection,              \* send: Connection (relay_server, port, connection, auth)
    returned,                \* send: what the last call on the Connection returned
    transmitted,             \* send: what the transports were given to send, in order
    calls                    \* the calls made on the value so far, in order

entries_vars == <<unparsed_entries, parse_errors, entries_pool, pc, email_entries,
                  pending, cur, visited, email, accumulated_context,
                  email_compose_method, composed_emails>>
render_vars == <<template_data, context_data, engine_detection, template_extension,
                 template, in_memory_template, engine_input, result>>
path_vars == <<exe_path, rel_path, base, observed>>
report_vars == <<error_report>>
send_vars == <<message_builder, message, smtp_builder, smtp_info, connection,
               returned, transmitted>>

\* The state of the parts of the program other than the entries pipeline,
\* other than render, and other than RelativePath.
outside_entries == <<render_vars, path_vars, report_vars, send_vars, calls>>
outside_render == <<entries_vars, path_vars, report_vars, send_vars, calls>>
outside_path == <<entries_vars, render_vars, report_vars, send_vars, calls>>
outside_report == <<entries_vars, render_vars, path_vars, send_vars>>
outside_send == <<entries_vars, render_vars, path_vars, report_vars>>

\* Nothing of that part has run yet.
Unset == [unset |-> TRUE]

\* Option: None, Some(v)
None == <<>>
Some(v) == <<v>>
RenderNotCalled ==
    /\ template_data = Unset
    /\ context_data = Unset
    /\ engine_detection = Unset
    /\ template_extension = Unset
    /\ template = Unset
    /\ in_memory_template = Unset
    /\ engine_input = Unset
    /\ result = Unset
RelativePathNotUsed ==
    /\ exe_path = Unset
    /\ rel_path = Unset
    /\ base = Unset
    /\ observed = Unset
ErrorReportNotUsed == error_report = Unset
SendNotUsed ==
    /\ message_builder = Unset
    /\ message = Unset
    /\ smtp_builder = Unset
    /\ smtp_info = Unset
    /\ connection = Unset
    /\ returned = Unset
    /\ transmitted = Unset
NoCalls == calls = Unset

vars == <<entries_vars, render_vars, path_vars, report_vars, send_vars, calls>>

(***************************************************************************)
(* Bytes, 32-bit words and CRC-32/ISO-HDLC                                 *)
(***************************************************************************)
RECURSIVE XorBits(_, _, _)
XorBits(a, b, n) ==
    IF n = 0 THEN 0
    ELSE (((a % 2) + (b % 2)) % 2) + 2 * XorBits(a \div 2, b \div 2, n - 1)

Xor8(a, b) == XorBits(a, b, 8)

U32Xor(x, y) == <<Xor8(x[1], y[1]), Xor8(x[2], y[2]), Xor8(x[3], y[3]), Xor8(x[4], y[4])>>

U32Shr1(x) ==
    <<x[1] \div 2,
      (x[2] \div 2) + (x[1] % 2) * 128,
      (x[3] \div 2) + (x[2] % 2) * 128,
      (x[4] \div 2) + (x[3] % 2) * 128>>

U32Shr8(x) == <<0, x[1], x[2], x[3]>>

\* CRC_32_ISO_HDLC: poly 0x04C11DB7 reflected (0xEDB88320), init and xorout
\* 0xFFFFFFFF, input and output reflected.
CRC32_ALGORITHM == [poly |-> <<237, 184, 131, 32>>,
                    init |-> <<255, 255, 255, 255>>,
                    xorout |-> <<255, 255, 255, 255>>]

RECURSIVE CrcTableEntry(_, _)
CrcTableEntry(c, n) ==
    IF n = 0 THEN c
    ELSE CrcTableEntry(IF c[4] % 2 = 1 THEN U32Xor(U32Shr1(c), CRC32_ALGORITHM.poly)
                                       ELSE U32Shr1(c),
                       n - 1)

CrcTable == [b \in 0..255 |-> CrcTableEntry(<<0, 0, 0, b>>, 8)]

\* One byte of the table-driven update.
CrcByte(crc, byte) == U32Xor(CrcTable[Xor8(crc[4], byte)], U32Shr8(crc))

\* The update over bytes[lo..hi], left to right: the left half first, then
\* the right half from its result (halves keep the evaluation shallow).
RECURSIVE CrcUpdate(_, _, _, _)
CrcUpdate(crc, bytes, lo, hi) ==
    IF lo > hi THEN crc
    ELSE IF lo = hi THEN CrcByte(crc, bytes[lo])
    ELSE LET mid == (lo + hi) \div 2
             left == CrcUpdate(crc, bytes, lo, mid)
         IN  IF left \in Seq(0..255) THEN CrcUpdate(left, bytes, mid + 1, hi) ELSE left

crc32_iso_hdlc_checksum(bytes) ==
    U32Xor(CrcUpdate(CRC32_ALGORITHM.init, bytes, 1, Len(bytes)), CRC32_ALGORITHM.xorout)

\* format!("{:x}", n): lowercase hexadecimal without leading zeros.
HexDigit(n) == IF n < 10 THEN 48 + n ELSE 87 + n

RECURSIVE StripZeros(_)
StripZeros(ds) ==
    IF Len(ds) > 1 /\ Head(ds) = 0 THEN StripZeros(Tail(ds)) ELSE ds

LowerHex(w) ==
    LET nibbles == <<w[1] \div 16, w[1] % 16, w[2] \div 16, w[2] % 16,
                     w[3] \div 16, w[3] % 16, w[4] \div 16, w[4] % 16>>
        kept == StripZeros(nibbles)
    IN  [i \in 1..Len(kept) |-> HexDigit(kept[i])]

string_crc32_iso_hdlc_checksum(string) == LowerHex(crc32_iso_hdlc_checksum(string))

(***************************************************************************)
(* JSON values and their compact encoding (serde_json's to_string)         *)
(***************************************************************************)
Num(n) == [num |-> n]
Str(s) == [str |-> s]
Arr(xs) == [arr |-> xs]
Obj(m) == [obj |-> m]

IsNum(v) == DOMAIN v = {"num"}
IsStr(v) == DOMAIN v = {"str"}
IsArr(v) == DOMAIN v = {"arr"}
IsObj(v) == DOMAIN v = {"obj"}

EmptyMap == [k \in {} |-> Num(0)]

\* Byte-wise lexicographic order of two keys: serde_json::Map without the
\* preserve_order feature is a BTreeMap<String, Value>, iterated and
\* serialized in this order.
RECURSIVE KeyLess(_, _)
KeyLess(a, b) ==
    IF a = <<>> THEN b # <<>>
    ELSE IF b = <<>> THEN FALSE
    ELSE IF Head(a) # Head(b) THEN Head(a) < Head(b)
    ELSE KeyLess(Tail(a), Tail(b))

RECURSIVE KeysInOrder(_)
KeysInOrder(S) ==
    IF S = {} THEN <<>>
    ELSE LET k == CHOOSE x \in S : \A y \in S \ {x} : KeyLess(x, y)
         IN  <<k>> \o KeysInOrder(S \ {k})

RECURSIVE Digits(_)
Digits(n) == IF n < 10 THEN <<48 + n>> ELSE Digits(n \div 10) \o <<48 + (n % 10)>>

Quoted(s) == <<34>> \o s \o <<34>>

RECURSIVE to_string(_)
RECURSIVE JoinValues(_)
RECURSIVE JoinMembers(_, _)

JoinValues(xs) ==
    IF xs = <<>> THEN <<>>
    ELSE to_string(Head(xs))
         \o (IF Len(xs) > 1 THEN <<44>> ELSE <<>>)
         \o JoinValues(Tail(xs))

JoinMembers(ks, m) ==
    IF ks = <<>> THEN <<>>
    ELSE Quoted(Head(ks)) \o <<58>> \o to_string(m[Head(ks)])
         \o (IF Len(ks) > 1 THEN <<44>> ELSE <<>>)
         \o JoinMembers(Tail(ks), m)

to_string(v) ==
    IF IsNum(v) THEN Digits(v.num)
    ELSE IF IsStr(v) THEN Quoted(v.str)
    ELSE IF IsArr(v) THEN <<91>> \o JoinValues(v.arr) \o <<93>>
    ELSE <<123>> \o JoinMembers(KeysInOrder(DOMAIN v.obj), v.obj) \o <<125>>

(***************************************************************************)
(* Email, Entry, ParsedEntry, ComposedEmail                                *)
(*                                                                         *)
(* Email: the twelve header fields; a Vec<String> is a sequence of         *)
(* strings.  Entry: utc, email, context (its id and notify_error are read  *)
(* by none of the operations below and are left out).  utc, a              *)
(* DateTime<FixedOffset>, is the local wall-clock time and the offset from *)
(* UTC, both in minutes.  ParsedEntry: id (one per entry file, here the    *)
(* arrival position) and entry.                                            *)
(***************************************************************************)
StrArr(xs) == Arr([i \in 1..Len(xs) |-> Str(xs[i])])

Member(name, v) == Quoted(name) \o <<58>> \o to_string(v)

\* serde_json::to_string(&email): the fields in the order of the struct.
\* A variant whose encoding leaves the recipients out.
serialize_email_without_to(e) ==
    <<123>>
    \o Member(<<115, 121, 115, 116, 101, 109>>, Str(e.system)) \o <<44>>
    \o Member(<<115, 117, 98, 115, 121, 115, 116, 101, 109>>, Str(e.subsystem)) \o <<44>>
    \o Member(<<102, 114, 111, 109>>, Str(e.from)) \o <<44>>
    \o Member(<<99, 99>>, StrArr(e.cc)) \o <<44>>
    \o Member(<<98, 99, 99>>, StrArr(e.bcc)) \o <<44>>
    \o Member(<<114, 101, 112, 108, 121, 95, 116, 111>>, StrArr(e.reply_to)) \o <<44>>
    \o Member(<<115, 117, 98, 106, 101, 99, 116>>, Str(e.subject)) \o <<44>>
    \o Member(<<116, 101, 109, 112, 108, 97, 116, 101>>, Str(e.template)) \o <<44>>
    \o Member(<<97, 108, 116, 101, 114, 110, 97, 116, 105, 118, 101, 95, 99, 111,
                110, 116, 101, 110, 116>>, Str(e.alternative_content)) \o <<44>>
    \o Member(<<97, 116, 116, 97, 99, 104, 109, 101, 110, 116, 115>>, StrArr(e.attachments)) \o <<44>>
    \o Member(<<99, 117, 115, 116, 111, 109, 95, 107, 101, 121>>, Str(e.custom_key))
    \o <<125>>

serialize_email(e) ==
    <<123>>
    \o Member(<<115, 121, 115, 116, 101, 109>>, Str(e.system)) \o <<44>>
    \o Member(<<115, 117, 98, 115, 121, 115, 116, 101, 109>>, Str(e.subsystem)) \o <<44>>
    \o Member(<<102, 114, 111, 109>>, Str(e.from)) \o <<44>>
    \o Member(<<116, 111>>, StrArr(e.to)) \o <<44>>
    \o Member(<<99, 99>>, StrArr(e.cc)) \o <<44>>
    \o Member(<<98, 99, 99>>, StrArr(e.bcc)) \o <<44>>
    \o Member(<<114, 101, 112, 108, 121, 95, 116, 111>>, StrArr(e.reply_to)) \o <<44>>
    \o Member(<<115, 117, 98, 106, 101, 99, 116>>, Str(e.subject)) \o <<44>>
    \o Member(<<116, 101, 109, 112, 108, 97, 116, 101>>, Str(e.template)) \o <<44>>
    \o Member(<<97, 108, 116, 101, 114, 110, 97, 116, 105, 118, 101, 95, 99, 111,
                110, 116, 101, 110, 116>>, Str(e.alternative_content)) \o <<44>>
    \o Member(<<97, 116, 116, 97, 99, 104, 109, 101, 110, 116, 115>>, StrArr(e.attachments)) \o <<44>>
    \o Member(<<99, 117, 115, 116, 111, 109, 95, 107, 101, 121>>, Str(e.custom_key))
    \o <<125>>

\* ParsedEntry::email_id
EmailIdOf(header) == crc32_iso_hdlc_checksum(serialize_email(header))

\* The headers of the model's entry files.
Header(to) ==
    [system |-> <<111, 112, 115>>, subsystem |-> <<>>, from |-> <<102>>,
     to |-> to, cc |-> <<>>, bcc |-> <<>>, reply_to |-> <<>>,
     subject |-> <<115>>, template |-> <<116>>, alternative_content |-> <<>>,
     attachments |-> <<>>, custom_key |-> <<>>]

\* Two headers that differ only in the order of the recipients.
HeaderXY == Header(<< <<120>>, <<121>> >>)
HeaderYX == Header(<< <<121>>, <<120>> >>)
Headers == {HeaderXY, HeaderYX}

\* EmailIdOf, computed once for each header of the model.
EmailIds == [h \in Headers |-> EmailIdOf(h)] @@ EmptyMap

email_id(parsed) == EmailIds[parsed.entry.email]

\* DateTime<FixedOffset>::cmp orders two timestamps as instants.
Instant(utc) == utc.local - utc.offset

\* A variant that compares the wall-clock readings and ignores the offsets.
utc_cmp_local(a, b) ==
    IF a.local < b.local THEN "Less"
    ELSE IF a.local > b.local THEN "Greater"
    ELSE "Equal"

\* DateTime<FixedOffset>::cmp compares the instants.
utc_cmp(a, b) ==
    IF Instant(a) < Instant(b) THEN "Less"
    ELSE IF Instant(a) > Instant(b) THEN "Greater"
    ELSE "Equal"

\* Vec::sort_by is a stable sort: x goes after every element that is not
\* greater than it.
RECURSIVE InsertStable(_, _)
InsertStable(sorted, x) ==
    IF sorted = <<>> THEN <<x>>
    ELSE IF utc_cmp(Head(sorted).entry.utc, x.entry.utc) = "Greater"
         THEN <<x>> \o sorted
         ELSE <<Head(sorted)>> \o InsertStable(Tail(sorted), x)

RECURSIVE SortFrom(_, _)
SortFrom(sorted, rest) ==
    IF rest = <<>> THEN sorted
    ELSE SortFrom(InsertStable(sorted, Head(rest)), Tail(rest))

\* A variant that leaves the group in arrival order.
sort_by_utc_skipped(value) == value

sort_by_utc(value) == SortFrom(<<>>, value)

\* A variant that creates a group empty and pushes only onto a group that
\* was there before.
RECURSIVE GroupByEmailIdExisting(_, _)
GroupByEmailIdExisting(pool, map) ==
    IF pool = <<>> THEN map
    ELSE LET entry_metadata == Head(pool)
             id == email_id(entry_metadata)
         IN  GroupByEmailIdExisting(
                 Tail(pool),
                 IF id \in DOMAIN map
                 THEN [map EXCEPT ![id] = Append(@, entry_metadata)]
                 ELSE map @@ (id :> <<>>))

\* The first loop of map_emails: entry(email_id).or_insert_with(Vec::new), push.
RECURSIVE GroupByEmailId(_, _)
GroupByEmailId(pool, map) ==
    IF pool = <<>> THEN map
    ELSE LET entry_metadata == Head(pool)
             id == email_id(entry_metadata)
             withKey == IF id \in DOMAIN map THEN map ELSE map @@ (id :> <<>>)
         IN  GroupByEmailId(Tail(pool),
                            [withKey EXCEPT ![id] = Append(@, entry_metadata)])

map_emails(pool) ==
    LET grouped == GroupByEmailId(pool, EmptyMap)
    IN  [id \in DOMAIN grouped |-> sort_by_utc(grouped[id])]

(***************************************************************************)
(* copy_and_accumulate                                                     *)
(***************************************************************************)
KeyOrder == <<111, 114, 100, 101, 114>>
KeyChecksum == <<99, 104, 101, 99, 107, 115, 117, 109>>
KeyValue == <<118, 97, 108, 117, 101>>

\* string_crc32_iso_hdlc_checksum(&v.to_string()), computed once for the
\* values the model's entries accumulate.
ValueChecksums ==
    [v \in {Num(1), Obj(<<105, 100>> :> Num(1)), Obj(<<105, 100>> :> Num(2))}
        |-> string_crc32_iso_hdlc_checksum(to_string(v))] @@ EmptyMap

ValueChecksum(v) ==
    IF v \in DOMAIN ValueChecksums THEN ValueChecksums[v]
    ELSE string_crc32_iso_hdlc_checksum(to_string(v))

\* A variant whose items hold `order` and `value` only.
AccumulatedValueNoChecksum(order, v) ==
    Obj((KeyOrder :> Num(order)) @@ (KeyValue :> v))

\* serde_json::json!(AccumulatedValue { order, checksum, value })
AccumulatedValue(order, v) ==
    Obj((KeyOrder :> Num(order))
        @@ (KeyChecksum :> Str(ValueChecksum(v)))
        @@ (KeyValue :> v))

\* k.strip_prefix('+') is Some
HasPlus(k) == k # <<>> /\ Head(k) = 43

MapRemove(m, k) == [x \in DOMAIN m \ {k} |-> m[x]]

\* A variant that writes v whether or not the key is present (last write wins).
OrInsertOverwriting(m, k, v) == [x \in DOMAIN m \cup {k} |-> IF x = k THEN v ELSE m[x]]

\* entry(k).or_insert_with(|| v)
\* A variant that extends an array already there by the elements of a new one.
OrInsertExtending(m, k, v) ==
    IF k \notin DOMAIN m THEN m @@ (k :> v)
    ELSE IF DOMAIN m[k] = {"arr"} /\ DOMAIN v = {"arr"}
    THEN [m EXCEPT ![k] = Arr(@.arr \o v.arr)]
    ELSE m

OrInsert(m, k, v) == IF k \in DOMAIN m THEN m ELSE m @@ (k :> v)

\* A variant that first drops a value of the bare key that is not an array
\* of accumulated items.
AccumulateReplacing(k, v, target) ==
    LET key_name == Tail(k)
        kept == IF key_name \in DOMAIN target
                   /\ ~(DOMAIN target[key_name] = {"arr"}
                        /\ \A i \in 1..Len(target[key_name].arr) :
                              DOMAIN target[key_name].arr[i] = {"obj"})
                THEN MapRemove(target, key_name) ELSE target
        present == OrInsert(MapRemove(kept, k), key_name, Arr(<<>>))
    IN  [present EXCEPT ![key_name] =
            Arr(Append(@.arr, AccumulatedValue(Len(@.arr) + 1, v)))]

\* A variant that leaves the prefixed key in the target.
AccumulateKeepingKey(k, v, target) ==
    LET key_name == Tail(k)
        present == OrInsert(target, key_name, Arr(<<>>))
    IN  IF IsArr(present[key_name])
        THEN [present EXCEPT ![key_name] =
                  Arr(Append(@.arr, AccumulatedValue(Len(@.arr) + 1, v)))]
        ELSE present

\* The branch of a `+` key: the compose method becomes Batch, the prefixed
\* key is removed from the target, and the item is pushed when the bare key
\* holds (or now gets) an array.  `as u32` changes no length the model reaches.
Accumulate(k, v, target) ==
    LET key_name == Tail(k)
        present == OrInsert(MapRemove(target, k), key_name, Arr(<<>>))
    IN  IF IsArr(present[key_name])
        THEN [present EXCEPT ![key_name] =
                  Arr(Append(@.arr, AccumulatedValue(Len(@.arr) + 1, v)))]
        ELSE present


RECURSIVE copy_and_accumulate(_, _, _)

\* A variant that gives up the rest of the object at the first key that
\* meets a value of another shape.
RECURSIVE CopyKeysUntilConflict(_, _, _, _)
CopyKeysUntilConflict(ks, source, target, method) ==
    IF ks = <<>> THEN [target |-> target, method |-> method]
    ELSE LET k == Head(ks)
             v == source[k]
         IN  IF HasPlus(k)
             THEN IF Tail(k) \in DOMAIN target /\ ~IsArr(target[Tail(k)])
                  THEN [target |-> target, method |-> "Batch"]
                  ELSE CopyKeysUntilConflict(Tail(ks), source, Accumulate(k, v, target),
                                             "Batch")
             ELSE IF IsObj(v)
             THEN LET nested == OrInsert(target, k, v)
                  IN  IF IsObj(nested[k])
                      THEN LET r == copy_and_accumulate(v.obj, nested[k].obj, method)
                           IN  CopyKeysUntilConflict(Tail(ks), source,
                                    [nested EXCEPT ![k] = Obj(r.target)], r.method)
                      ELSE [target |-> target, method |-> method]
             ELSE CopyKeysUntilConflict(Tail(ks), source, OrInsert(target, k, v), method)

\* The loop body, for the keys ks still to scan.
RECURSIVE CopyKeys(_, _, _, _)
CopyKeys(ks, source, target, method) ==
    IF ks = <<>> THEN [target |-> target, method |-> method]
    ELSE LET k == Head(ks)
             v == source[k]
         IN  IF HasPlus(k)
             THEN CopyKeys(Tail(ks), source, Accumulate(k, v, target), "Batch")
             ELSE IF IsObj(v)
             THEN LET nested == OrInsert(target, k, v)
                  IN  IF IsObj(nested[k])
                      THEN LET r == copy_and_accumulate(v.obj, nested[k].obj, method)
                           IN  CopyKeys(Tail(ks), source,
                                        [nested EXCEPT ![k] = Obj(r.target)], r.method)
                      ELSE CopyKeys(Tail(ks), source, nested, method)
             ELSE CopyKeys(Tail(ks), source, OrInsert(target, k, v), method)

\* A variant that treats an object like any other value: or_insert, and no
\* descent into it.
RECURSIVE CopyKeysFlat(_, _, _, _)
CopyKeysFlat(ks, source, target, method) ==
    IF ks = <<>> THEN [target |-> target, method |-> method]
    ELSE LET k == Head(ks)
         IN  IF HasPlus(k)
             THEN CopyKeysFlat(Tail(ks), source, Accumulate(k, source[k], target), "Batch")
             ELSE CopyKeysFlat(Tail(ks), source, OrInsert(target, k, source[k]), method)

copy_and_accumulate_flat(source, target, method) ==
    CopyKeysFlat(KeysInOrder(DOMAIN source), source, target, method)

\* A variant that reports Batch only for a `+` key of the scanned object
\* itself, not for one found in a nested object.
copy_and_accumulate_shallow(source, target, method) ==
    LET r == CopyKeys(KeysInOrder(DOMAIN source), source, target, method)
    IN  [target |-> r.target,
         method |-> IF \E k \in DOMAIN source : HasPlus(k) THEN "Batch" ELSE method]

copy_and_accumulate(source, target, method) ==
    CopyKeys(KeysInOrder(DOMAIN source), source, target, method)

(***************************************************************************)
(* The inputs: headers, timestamps and contexts of the entry files         *)
(***************************************************************************)
MaxPool == 3

KeyA == <<97>>
KeyId == <<105, 100>>
KeyRows == <<114, 111, 119, 115>>
PlusRows == <<43>> \o KeyRows

\* 10:00+00:00, 11:00+02:00 (the earlier instant 09:00Z) and 12:00+02:00
\* (the same instant as the first).
Utc(local, offset) == [local |-> local, offset |-> offset]
Timestamps == {Utc(600, 0), Utc(660, 120), Utc(720, 120)}

Ctx1(k, v) == k :> v
Ctx2(k1, v1, k2, v2) == (k1 :> v1) @@ (k2 :> v2)

\* {"a":1}, {"+rows":{"id":1}}, {"+rows":{"id":2}}
BasicContexts ==
    { Ctx1(KeyA, Num(1)),
      Ctx1(PlusRows, Obj(Ctx1(KeyId, Num(1)))),
      Ctx1(PlusRows, Obj(Ctx1(KeyId, Num(2)))) }

\* {"a":2}, {"rows":5}, {"rows":[7]}, {"rows":{"id":1}}, {"a":{"+rows":1}},
\* {"a":{"id":1}}, {"a":{"id":2}}, {"+rows":1,"rows":2}
Contexts ==
    BasicContexts \cup
    { Ctx1(KeyA, Num(2)),
      Ctx1(KeyRows, Num(5)),
      Ctx1(KeyRows, Arr(<<Num(7)>>)),
      Ctx1(KeyRows, Obj(Ctx1(KeyId, Num(1)))),
      Ctx1(KeyA, Obj(Ctx1(PlusRows, Num(1)))),
      Ctx1(KeyA, Obj(Ctx1(KeyId, Num(1)))),
      Ctx1(KeyA, Obj(Ctx1(KeyId, Num(2)))),
      Ctx2(PlusRows, Num(1), KeyRows, Num(2)) }

Entry(utc, header, context) == [utc |-> utc, email |-> header, context |-> context]

\* Entries of any header and timestamp with a basic context, and entries of
\* one header and one timestamp with any context.
VariedEntries ==
    {Entry(t, h, c) : t \in Timestamps, h \in Headers, c \in BasicContexts}
UniformEntries ==
    {Entry(Utc(600, 0), HeaderXY, c) : c \in Contexts}

SeqsUpTo(S, n) == UNION {[1..k -> S] : k \in 0..n}

ParsedPool(es) == [i \in 1..Len(es) |-> [id |-> i, entry |-> es[i]]]

Pools ==
    {ParsedPool(es) : es \in SeqsUpTo(VariedEntries, MaxPool)
                            \cup SeqsUpTo(UniformEntries, MaxPool)}

(***************************************************************************)
(* load_entries: the raw entries and parse_entities                        *)
(***************************************************************************)
\* The content of an entry file: text that is no JSON document, or a JSON
\* object, given by its members.
Malformed == [malformed |-> <<123>>]
Document(members) == [document |-> members]

\* The document of an entry (its id and notify_error play no part later).
EntryDocument(e) ==
    Document([id |-> <<>>, utc |-> e.utc, notify_error |-> <<>>,
              email |-> e.email, context |-> Obj(e.context)])

\* The fields of struct Entry, in declaration order.
EntryFields == <<"id", "utc", "notify_error", "email", "context">>

Ok(v) == [ok |-> v]
Err(e) == [err |-> e]
IsOk(r) == DOMAIN r = {"ok"}

\* serde_json::from_str::<Entry>: a syntax error for text that is no JSON,
\* a data error for the first missing field or for a context that is no
\* object, else the Entry.
from_str(content) ==
    IF DOMAIN content = {"malformed"} THEN Err([category |-> "Syntax"])
    ELSE LET doc == content.document
             missing == SelectSeq(EntryFields, LAMBDA f : f \notin DOMAIN doc)
         IN  IF missing # <<>>
             THEN Err([category |-> "Data", missing_field |-> Head(missing)])
             ELSE IF ~IsObj(doc.context)
             THEN Err([category |-> "Data", invalid_type |-> "context"])
             ELSE Ok(Entry(doc.utc, doc.email, doc.context.obj))

UnparsedEntry(id, content) == [id |-> id, content |-> content]
ParsedEntry(id, entry) == [id |-> id, entry |-> entry]
EntryParseError(entry_content, error) ==
    [entry_content |-> entry_content, error |-> error]

\* A variant that gives up at the first entry that fails to parse.
RECURSIVE parse_entities_aborting(_, _, _)
parse_entities_aborting(unparsed, parsed, errors) ==
    IF unparsed = <<>> THEN [ok |-> parsed, err |-> errors]
    ELSE LET unparsed_entry == Head(unparsed)
             r == from_str(unparsed_entry.content)
         IN  IF IsOk(r)
             THEN parse_entities_aborting(
                      Tail(unparsed),
                      Append(parsed, ParsedEntry(unparsed_entry.id, r.ok)), errors)
             ELSE [ok |-> parsed,
                   err |-> Append(errors, EntryParseError(unparsed_entry, r.err))]

RECURSIVE parse_entities(_, _, _)
parse_entities(unparsed, parsed, errors) ==
    IF unparsed = <<>> THEN [ok |-> parsed, err |-> errors]
    ELSE LET unparsed_entry == Head(unparsed)
             r == from_str(unparsed_entry.content)
         IN  IF IsOk(r)
             THEN parse_entities(
                      Tail(unparsed),
                      Append(parsed, ParsedEntry(unparsed_entry.id, r.ok)), errors)
             ELSE parse_entities(
                      Tail(unparsed), parsed,
                      Append(errors, EntryParseError(unparsed_entry, r.err)))

\* Entry files: three that parse, one that is no JSON, one without the
\* `context` field and one whose `context` is a number.
LoadEntries ==
    {Entry(Utc(600, 0), HeaderXY, Ctx1(KeyA, Num(1))),
     Entry(Utc(600, 0), HeaderXY, Ctx1(PlusRows, Obj(Ctx1(KeyId, Num(1))))),
     Entry(Utc(660, 120), HeaderYX, Ctx1(KeyA, Num(1)))}

NoContext ==
    Document([id |-> <<>>, utc |-> Utc(600, 0), notify_error |-> <<>>,
              email |-> HeaderYX])

ContextNotObject ==
    Document([id |-> <<>>, utc |-> Utc(600, 0), notify_error |-> <<>>,
              email |-> HeaderXY, context |-> Num(1)])

Contents ==
    {EntryDocument(e) : e \in LoadEntries} \cup {Malformed, NoContext, ContextNotObject}

\* The id of an unparsed entry is its path; the model numbers the files in
\* the order in which the directory walk finds them.
UnparsedPools ==
    {[i \in 1..Len(cs) |-> UnparsedEntry(i, cs[i])] : cs \in SeqsUpTo(Contents, MaxPool)}

(***************************************************************************)
(* The run: map_emails, then compose_emails one group and entry at a time  *)
(***************************************************************************)
NoGroup == <<>>

\* The state of the entries pipeline before map_emails.
NotMapped ==
    /\ email_entries = EmptyMap
    /\ pending = {}
    /\ cur = NoGroup
    /\ visited = 0
    /\ email = NoGroup
    /\ accumulated_context = EmptyMap
    /\ email_compose_method = "Single"
    /\ composed_emails = <<>>

\* load_entries has returned, every entry file parsed.
Init ==
    /\ entries_pool \in Pools
    /\ unparsed_entries =
           [i \in DOMAIN entries_pool |->
               UnparsedEntry(entries_pool[i].id, EntryDocument(entries_pool[i].entry))]
    /\ parse_errors = <<>>
    /\ pc = "loaded"
    /\ NotMapped
    /\ RenderNotCalled
    /\ RelativePathNotUsed
    /\ ErrorReportNotUsed
    /\ SendNotUsed
    /\ NoCalls

\* let email_entries = map_emails(&entries_pool)
MapEmails ==
    /\ pc = "loaded"
    /\ email_entries' = map_emails(entries_pool)
    /\ pending' = DOMAIN email_entries'
    /\ pc' = "mapped"
    /\ UNCHANGED <<entries_pool, cur, visited, email, accumulated_context,
                   email_compose_method, composed_emails>>
    /\ UNCHANGED <<unparsed_entries, parse_errors, outside_entries>>

\* A variant that declares the compose method once, before the outer loop.
GroupStartKeepingMethod ==
    /\ pc = "mapped"
    /\ \E id \in pending :
          LET first_entry == email_entries[id][1]
          IN  /\ cur' = id
              /\ email' = first_entry.entry.email
              /\ accumulated_context' = first_entry.entry.context
    /\ visited' = 0
    /\ pc' = "group"
    /\ UNCHANGED <<entries_pool, email_entries, pending, composed_emails,
                   email_compose_method>>
    /\ UNCHANGED <<unparsed_entries, parse_errors, outside_entries>>

\* The head of the outer loop, for the next group of the HashMap (in any
\* order): first entry, its header, its context as the accumulator, Single.
GroupStart ==
    /\ pc = "mapped"
    /\ \E id \in pending :
          LET first_entry == email_entries[id][1]
          IN  /\ cur' = id
              /\ email' = first_entry.entry.email
              /\ accumulated_context' = first_entry.entry.context
    /\ email_compose_method' = "Single"
    /\ visited' = 0
    /\ pc' = "group"
    /\ UNCHANGED <<entries_pool, email_entries, pending, composed_emails>>
    /\ UNCHANGED <<unparsed_entries, parse_errors, outside_entries>>

\* A variant that sends the accumulated context instead of the entry's own.
SingleEmailAccumulated(id, entry_metadata) ==
    [id |-> id, header |-> entry_metadata.entry.email,
     context |-> accumulated_context]

SingleEmail(id, entry_metadata) ==
    [id |-> id, header |-> entry_metadata.entry.email,
     context |-> entry_metadata.entry.context]

BatchEmail(id, header, context) ==
    [id |-> id, header |-> header, context |-> context]

\* A variant that emits the entry's e-mail whatever the method.
PushAlways(method, emails, single) == Append(emails, single)

\* A variant that takes the group's earlier e-mails back once the method is
\* no longer Single.
PushOrRetract(method, emails, single) ==
    IF method = "Single" THEN Append(emails, single)
    ELSE SelectSeq(emails, LAMBDA m : m.id # single.id)

\* `if let EmailComposeMethod::Single = email_compose_method { push }`
PushIfSingle(method, emails, single) ==
    IF method = "Single" THEN Append(emails, single) ELSE emails

\* One turn of the inner loop: merge the entry, then emit it if still Single.
VisitEntry ==
    /\ pc = "group"
    /\ visited < Len(email_entries[cur])
    /\ LET entry_metadata == email_entries[cur][visited + 1]
           r == copy_and_accumulate(entry_metadata.entry.context,
                                    accumulated_context, email_compose_method)
       IN  /\ accumulated_context' = r.target
           /\ email_compose_method' = r.method
           /\ composed_emails' =
                  PushIfSingle(r.method, composed_emails,
                               SingleEmail(cur, entry_metadata))
    /\ visited' = visited + 1
    /\ UNCHANGED <<entries_pool, pc, email_entries, pending, cur, email>>
    /\ UNCHANGED <<unparsed_entries, parse_errors, outside_entries>>

\* A variant that emits the accumulated e-mail whatever the method.
GroupEndAlwaysBatch ==
    /\ pc = "group"
    /\ visited = Len(email_entries[cur])
    /\ composed_emails' =
           Append(composed_emails, BatchEmail(cur, email, accumulated_context))
    /\ pending' = pending \ {cur}
    /\ pc' = "mapped"
    /\ UNCHANGED <<entries_pool, email_entries, cur, visited, email,
                   accumulated_context, email_compose_method>>
    /\ UNCHANGED <<unparsed_entries, parse_errors, outside_entries>>

\* After the inner loop: the batch e-mail, if the method is Batch.
GroupEnd ==
    /\ pc = "group"
    /\ visited = Len(email_entries[cur])
    /\ composed_emails' =
           IF email_compose_method = "Batch"
           THEN Append(composed_emails, BatchEmail(cur, email, accumulated_context))
           ELSE composed_emails
    /\ pending' = pending \ {cur}
    /\ pc' = "mapped"
    /\ UNCHANGED <<entries_pool, email_entries, cur, visited, email,
                   accumulated_context, email_compose_method>>
    /\ UNCHANGED <<unparsed_entries, parse_errors, outside_entries>>

\* compose_emails returns composed_emails.
Return ==
    /\ pc = "mapped"
    /\ pending = {}
    /\ pc' = "done"
    /\ UNCHANGED <<entries_pool, email_entries, pending, cur, visited, email,
                   accumulated_context, email_compose_method, composed_emails>>
    /\ UNCHANGED <<unparsed_entries, parse_errors, outside_entries>>

Next == MapEmails \/ GroupStart \/ VisitEntry \/ GroupEnd \/ Return

Spec == Init /\ [][Next]_vars

(***************************************************************************)
(* The same run on contexts that nest deeper and double the marker         *)
(***************************************************************************)
PlusPlusRows == <<43>> \o PlusRows

\* {"++rows":1}, {"a":{"id":{"+rows":1}}}, {"a":{"id":3,"rows":4}},
\* {"a":{"+rows":2,"id":{"a":1}}}, {"+a":1,"id":7}, {"a":{"id":1},"rows":8}
DeepContexts ==
    Contexts \cup
    { Ctx1(PlusPlusRows, Num(1)),
      Ctx1(KeyA, Obj(Ctx1(KeyId, Obj(Ctx1(PlusRows, Num(1)))))),
      Ctx1(KeyA, Obj(Ctx2(KeyId, Num(3), KeyRows, Num(4)))),
      Ctx1(KeyA, Obj(Ctx2(PlusRows, Num(2), KeyId, Obj(Ctx1(KeyA, Num(1)))))),
      Ctx2(<<43>> \o KeyA, Num(1), KeyId, Num(7)),
      Ctx2(KeyA, Obj(Ctx1(KeyId, Num(1))), KeyRows, Num(8)) }

DeepPools ==
    {ParsedPool(es) :
        es \in SeqsUpTo({Entry(Utc(600, 0), HeaderXY, c) : c \in DeepContexts}, MaxPool)}

InitDeep ==
    /\ entries_pool \in DeepPools
    /\ unparsed_entries =
           [i \in DOMAIN entries_pool |->
               UnparsedEntry(entries_pool[i].id, EntryDocument(entries_pool[i].entry))]
    /\ parse_errors = <<>>
    /\ pc = "loaded"
    /\ NotMapped
    /\ RenderNotCalled
    /\ RelativePathNotUsed
    /\ ErrorReportNotUsed
    /\ SendNotUsed
    /\ NoCalls

SpecDeep == InitDeep /\ [][Next]_vars

(***************************************************************************)
(* The run from the entry files on: load_entries, map_emails,              *)
(* compose_emails                                                          *)
(***************************************************************************)
\* The files have been read into unparsed_entries (load_entries, 151-170).
InitLoad ==
    /\ unparsed_entries \in UnparsedPools
    /\ parse_errors = <<>>
    /\ entries_pool = <<>>
    /\ pc = "raw"
    /\ NotMapped
    /\ RenderNotCalled
    /\ RelativePathNotUsed
    /\ ErrorReportNotUsed
    /\ SendNotUsed
    /\ NoCalls

\* parse_entities(&unparsed_entries, &mut result, &mut errors) and the
\* return of EntryParseResults.
ParseEntities ==
    /\ pc = "raw"
    /\ LET r == parse_entities(unparsed_entries, <<>>, <<>>)
       IN  /\ entries_pool' = r.ok
           /\ parse_errors' = r.err
    /\ pc' = "loaded"
    /\ UNCHANGED <<unparsed_entries, email_entries, pending, cur, visited, email,
                   accumulated_context, email_compose_method, composed_emails,
                   outside_entries>>

NextLoad ==
    ParseEntities \/ MapEmails \/ GroupStart \/ VisitEntry \/ GroupEnd \/ Return

SpecLoad == InitLoad /\ [][NextLoad]_vars

(***************************************************************************)
(* render (src/src/render.rs): the selection of the template engine        *)
(***************************************************************************)
\* ASCII classes of the regex and of str::trim, and str::to_lowercase.
SpaceBytes == {9, 10, 11, 12, 13, 32}
WordBytes == (48..57) \cup (65..90) \cup (97..122) \cup {95}
IsSpace(b) == b \in SpaceBytes
LowerByte(b) == IF b \in 65..90 THEN b + 32 ELSE b
to_lowercase(s) == [i \in 1..Len(s) |-> LowerByte(s[i])]

\* The number of bytes from position p on that are in the class.
RECURSIVE RunLength(_, _, _)
RunLength(text, p, class) ==
    IF p <= Len(text) /\ text[p] \in class
    THEN 1 + RunLength(text, p + 1, class)
    ELSE 0

StartsWithAt(text, p, lit) ==
    /\ p + Len(lit) - 1 <= Len(text)
    /\ SubSeq(text, p, p + Len(lit) - 1) = lit

\* `<!--template\s+(?P<engine>\w+)\s?-->`, case-insensitive, tried at
\* position i: the match (its end and the bounds of the capture), or None.
MarkerOpen == <<60, 33, 45, 45, 116, 101, 109, 112, 108, 97, 116, 101>>
MarkerClose == <<45, 45, 62>>

MatchAt(text, i) ==
    IF ~StartsWithAt(to_lowercase(text), i, MarkerOpen) THEN None
    ELSE LET p1 == i + Len(MarkerOpen)
             p2 == p1 + RunLength(text, p1, SpaceBytes)
             p3 == p2 + RunLength(text, p2, WordBytes)
             p4 == IF p3 <= Len(text) /\ IsSpace(text[p3]) THEN p3 + 1 ELSE p3
         IN  IF p2 > p1 /\ p3 > p2 /\ StartsWithAt(text, p4, MarkerClose)
             THEN Some([start |-> i, end |-> p4 + Len(MarkerClose) - 1,
                        engine |-> SubSeq(text, p2, p3 - 1)])
             ELSE None

\* re.find_iter(contents).next() and re.captures_iter(contents).next(): the
\* leftmost match.
RECURSIVE FindFrom(_, _)
FindFrom(text, i) ==
    IF i > Len(text) THEN None
    ELSE IF MatchAt(text, i) # None THEN MatchAt(text, i)
    ELSE FindFrom(text, i + 1)

find(contents) == FindFrom(contents, 1)

\* str::replacen(pat, "", 1): without the first occurrence of pat.
RECURSIVE OccurrenceFrom(_, _, _)
OccurrenceFrom(text, pat, i) ==
    IF i + Len(pat) - 1 > Len(text) THEN 0
    ELSE IF SubSeq(text, i, i + Len(pat) - 1) = pat THEN i
    ELSE OccurrenceFrom(text, pat, i + 1)

replacen(text, pat) ==
    LET i == OccurrenceFrom(text, pat, 1)
    IN  IF i = 0 THEN text
        ELSE SubSeq(text, 1, i - 1) \o SubSeq(text, i + Len(pat), Len(text))

\* str::trim
RECURSIVE TrimStart(_)
TrimStart(s) == IF s # <<>> /\ IsSpace(Head(s)) THEN TrimStart(Tail(s)) ELSE s
RECURSIVE TrimEnd(_)
TrimEnd(s) ==
    IF s # <<>> /\ IsSpace(s[Len(s)]) THEN TrimEnd(SubSeq(s, 1, Len(s) - 1)) ELSE s
trim(s) == TrimEnd(TrimStart(s))

\* enum Template
Template(kind, contents) == [kind |-> kind, contents |-> contents]
Unknown(engine, contents) == [kind |-> "Unknown", engine |-> engine, contents |-> contents]

NameTera == <<116, 101, 114, 97>>
NameHbs == <<104, 98, 115>>
NameHandlebars == <<104, 97, 110, 100, 108, 101, 98, 97, 114, 115>>
NameLiq == <<108, 105, 113>>
NameLiquid == <<108, 105, 113, 117, 105, 100>>
NameNone == <<110, 111, 110, 101>>

\* A variant that takes the marker out of nothing.
KeepMarker(contents, found_match) == contents

\* contents.replacen(found_match, "", 1).trim()
StripMarker(contents, found_match) == trim(replacen(contents, found_match))

\* A variant that knows the long names only.
MatchEngineLongNames(engine, contents) ==
    IF engine = NameTera THEN Template("Tera", contents)
    ELSE IF engine = NameHandlebars THEN Template("Handlebars", contents)
    ELSE IF engine = NameLiquid THEN Template("Liquid", contents)
    ELSE Unknown(engine, contents)

\* A variant that takes a name it does not know for no engine.
MatchEngineLenient(engine, contents) ==
    IF engine = NameTera THEN Template("Tera", contents)
    ELSE IF engine \in {NameHbs, NameHandlebars} THEN Template("Handlebars", contents)
    ELSE IF engine \in {NameLiq, NameLiquid} THEN Template("Liquid", contents)
    ELSE Template("NoEngine", contents)

\* match engine.as_str() { .. }
MatchEngine(engine, contents) ==
    IF engine = NameTera THEN Template("Tera", contents)
    ELSE IF engine \in {NameHbs, NameHandlebars} THEN Template("Handlebars", contents)
    ELSE IF engine \in {NameLiq, NameLiquid} THEN Template("Liquid", contents)
    ELSE Unknown(engine, contents)

\* A variant that trims the text without a marker.
NoMarkerTrimmed(contents) == Template("NoEngine", trim(contents))

\* Template::NoEngine(Rc::new(contents.to_owned()))
NoMarker(contents) == Template("NoEngine", contents)

\* impl From<&str> for Template
Template_from_str(contents) ==
    IF find(contents) # None
    THEN LET m == find(contents)[1]
             found_match == SubSeq(contents, m.start, m.end)
         IN  MatchEngine(to_lowercase(m.engine), StripMarker(contents, found_match))
    ELSE NoMarker(contents)

\* Path::extension of the path's file name: what follows its last dot, if
\* the name has one that is not its first byte.
RECURSIVE LastIndexOf(_, _)
LastIndexOf(s, b) ==
    IF s = <<>> THEN 0
    ELSE IF s[Len(s)] = b THEN Len(s)
    ELSE LastIndexOf(SubSeq(s, 1, Len(s) - 1), b)

file_name(path) == SubSeq(path, LastIndexOf(path, 47) + 1, Len(path))

extension(path) ==
    LET name == file_name(path)
        dot == LastIndexOf(name, 46)
    IN  IF dot <= 1 THEN None ELSE Some(SubSeq(name, dot + 1, Len(name)))

TemplateData(contents, file_path) == [contents |-> contents, file_path |-> file_path]

\* The match on the file extension (320-325): the Template, or None.
MatchExtension(file_extension, contents) ==
    IF file_extension = NameTera THEN Some(Template("Tera", contents))
    ELSE IF file_extension = NameHbs THEN Some(Template("Handlebars", contents))
    ELSE IF file_extension = NameLiq THEN Some(Template("Liquid", contents))
    ELSE None

\* The early returns of From<&TemplateData> (313-327): the Template of a
\* source path with a recognized extension, or None.
FromExtension(td) ==
    IF td.file_path = None THEN None
    ELSE IF extension(td.file_path[1]) = None THEN None
    ELSE MatchExtension(extension(td.file_path[1])[1], td.contents)

\* A variant that looks for the marker first and at the extension only when
\* the text has none.
Template_from_marker_first(td) ==
    IF find(td.contents) # None THEN Template_from_str(td.contents)
    ELSE IF FromExtension(td) # None THEN FromExtension(td)[1]
    ELSE Template_from_str(td.contents)

\* impl From<&TemplateData> for Template
Template_from_template_data(td) ==
    IF FromExtension(td) # None THEN FromExtension(td)[1]
    ELSE Template_from_str(td.contents)

\* enum TemplateEngine and impl FromStr for TemplateEngine
TemplateEngine == {"Tera", "Liquid", "Handlebars", "None"}

TemplateEngine_from_str(s) ==
    LET name == to_lowercase(s)
    IN  IF name = NameTera THEN Ok("Tera")
        ELSE IF name \in {NameLiquid, NameLiq} THEN Ok("Liquid")
        ELSE IF name \in {NameHandlebars, NameHbs} THEN Ok("Handlebars")
        ELSE IF name = NameNone THEN Ok("None")
        ELSE Err("Please try one of the supported engines")

\* enum DetectionMethod
Auto == [method |-> "Auto"]
Force(engine) == [method |-> "Force", engine |-> engine]

\* A variant that obeys a marker in the text and takes it out even when the
\* engine is forced.
ForcedTemplateScanning(engine, contents) ==
    IF find(contents) # None THEN Template_from_str(contents)
    ELSE Template(IF engine = "None" THEN "NoEngine" ELSE engine, contents)

\* The arm DetectionMethod::Force(engine) of render (431-440).
ForcedTemplate(engine, contents) ==
    Template(IF engine = "None" THEN "NoEngine" ELSE engine, contents)

\* let template = match engine_detection { .. }
SelectedTemplate(td, detection) ==
    IF detection = Auto THEN Template_from_template_data(td)
    ELSE ForcedTemplate(detection.engine, td.contents)

(***************************************************************************)
(* The inputs of render: template texts, source paths, contexts            *)
(***************************************************************************)
MaxPieces == 2

Marker(name) == MarkerOpen \o <<32>> \o name \o MarkerClose

\* Engine names as markers spell them: names of the closed set, one of them
\* in capitals, and a name outside the set.
NameFoo == <<102, 111, 111>>
MarkerNames ==
    {NameTera, NameLiquid, NameLiq, NameHandlebars, <<72, 66, 83>>, NameNone, NameFoo}

\* `<!--TEMPLATE` + tab + space + `liq` + space + `-->`: upper case, more
\* white space; and a comment with two spaces before `-->`, which is no marker.
MarkerSpaced == <<60, 33, 45, 45, 84, 69, 77, 80, 76, 65, 84, 69, 9, 32, 108, 105, 113, 32, 45, 45, 62>>
NotAMarker == <<60, 33, 45, 45, 116, 101, 109, 112, 108, 97, 116, 101, 32, 116, 101, 114, 97, 32, 32, 45, 45, 62>>
Body == <<72, 105, 32, 123, 123, 97, 125, 125>>
Blank == <<10, 32>>

Pieces ==
    {Marker(name) : name \in MarkerNames}
        \cup {MarkerSpaced, NotAMarker, Body, Blank}

RECURSIVE Concat(_)
Concat(ps) == IF ps = <<>> THEN <<>> ELSE Head(ps) \o Concat(Tail(ps))

Texts == {Concat(ps) : ps \in SeqsUpTo(Pieces, MaxPieces)}

\* No source path; paths with the extensions tera, hbs, liq, html and TERA;
\* a path without extension; a file named `.tera`.
FilePaths ==
    {None} \cup {Some(path) : path \in
        {<<47, 116, 47, 109, 46, 116, 101, 114, 97>>,
         <<47, 116, 47, 109, 46, 104, 98, 115>>,
         <<47, 116, 47, 109, 46, 108, 105, 113>>,
         <<47, 116, 47, 109, 46, 104, 116, 109, 108>>,
         <<47, 116, 47, 109, 46, 84, 69, 82, 65>>,
         <<47, 116, 46, 100, 47, 109>>,
         <<47, 116, 47, 46, 116, 101, 114, 97>>}}

RenderContexts == {Obj(EmptyMap), Obj(Ctx1(KeyA, Num(1)))}

DetectionMethods == {Auto} \cup {Force(e) : e \in TemplateEngine}

\* TemplateExtension: Auto, Force(ext)
ExtensionAuto == [extension |-> "Auto"]
ExtensionForce(ext) == [extension |-> "Force", ext |-> ext]

(***************************************************************************)
(* render, step by step                                                    *)
(***************************************************************************)
\* render has been called.
InitRender ==
    /\ template_data \in {TemplateData(t, p) : t \in Texts, p \in FilePaths}
    /\ context_data \in RenderContexts
    /\ engine_detection \in DetectionMethods
    /\ template_extension = ExtensionAuto
    /\ template = Unset
    /\ in_memory_template = Unset
    /\ engine_input = Unset
    /\ result = Unset
    /\ unparsed_entries = <<>>
    /\ parse_errors = <<>>
    /\ entries_pool = <<>>
    /\ pc = "raw"
    /\ NotMapped
    /\ RelativePathNotUsed
    /\ ErrorReportNotUsed
    /\ SendNotUsed
    /\ NoCalls

\* What a template engine gives for a template and a context is the
\* library's business: a rendered text that stands for itself here.
Rendered(engine, contents, context) ==
    [rendered_by |-> engine, contents |-> contents, context |-> context]
EngineInput(engine, contents, context) ==
    [engine |-> engine, contents |-> contents, context |-> context]

\* The selection of the template (426-441).
SelectTemplate ==
    /\ template_data # Unset
    /\ template = Unset
    /\ template' = SelectedTemplate(template_data, engine_detection)
    /\ UNCHANGED <<template_data, context_data, engine_detection, template_extension,
                   in_memory_template, engine_input, result, outside_render>>

\* What the arm of an engine leaves: a failure before the engine sees the
\* template (Tera: its context, the templates' directory; Liquid: the build
\* of its parser), a failure of the engine, or the rendered text.
EngineInputAfter(engine, outcome) ==
    IF outcome = "not started" THEN engine_input
    ELSE EngineInput(engine, template.contents, context_data)
ResultAfter(engine, outcome) ==
    IF outcome = "rendered"
    THEN Ok(Rendered(engine, template.contents, context_data))
    ELSE Err([engine |-> engine, failure |-> outcome])

\* Force extension or auto detect (default .html), 501-515; the name of
\* the in-memory template, 518.
ExtHtml == <<104, 116, 109, 108>>
InMemoryStem == <<95, 95, 105, 110, 95, 109, 101, 109, 111, 114, 121, 95, 95, 46>>
template_type(ext, file_path) ==
    IF ext.extension = "Force" THEN ext.ext
    ELSE IF file_path # None
         THEN (IF extension(file_path[1]) # None THEN extension(file_path[1])[1]
               ELSE ExtHtml)
    ELSE ExtHtml
InMemoryTemplate(type) == InMemoryStem \o type
InMemoryTemplateAfter(outcome) ==
    IF outcome = "not started" THEN in_memory_template
    ELSE InMemoryTemplate(template_type(template_extension, template_data.file_path))

\* Template::Tera(contents) => { .. }
RenderTera ==
    /\ template # Unset
    /\ template.kind = "Tera"
    /\ result = Unset
    /\ \E outcome \in {"not started", "engine error", "rendered"} :
          /\ in_memory_template' = InMemoryTemplateAfter(outcome)
          /\ engine_input' = EngineInputAfter("Tera", outcome)
          /\ result' = ResultAfter("Tera", outcome)
    /\ UNCHANGED <<template_data, context_data, engine_detection, template_extension,
                   template, outside_render>>

\* Template::Handlebars(contents) => { .. }
RenderHandlebars ==
    /\ template # Unset
    /\ template.kind = "Handlebars"
    /\ result = Unset
    /\ \E outcome \in {"engine error", "rendered"} :
          /\ engine_input' = EngineInputAfter("Handlebars", outcome)
          /\ result' = ResultAfter("Handlebars", outcome)
    /\ UNCHANGED <<template_data, context_data, engine_detection, template_extension,
                   template, in_memory_template, outside_render>>

\* Template::Liquid(contents) => { .. }
RenderLiquid ==
    /\ template # Unset
    /\ template.kind = "Liquid"
    /\ result = Unset
    /\ \E outcome \in {"not started", "engine error", "rendered"} :
          /\ engine_input' = EngineInputAfter("Liquid", outcome)
          /\ result' = ResultAfter("Liquid", outcome)
    /\ UNCHANGED <<template_data, context_data, engine_detection, template_extension,
                   template, in_memory_template, outside_render>>

\* Template::Unknown(engine, _) => return Err(anyhow!(..))
RenderUnknown ==
    /\ template # Unset
    /\ template.kind = "Unknown"
    /\ result = Unset
    /\ result' = Err([unknown_engine |-> template.engine])
    /\ UNCHANGED <<template_data, context_data, engine_detection, template_extension,
                   template, in_memory_template, engine_input, outside_render>>

\* Template::NoEngine(raw) => raw
RenderNoEngine ==
    /\ template # Unset
    /\ template.kind = "NoEngine"
    /\ result = Unset
    /\ result' = Ok(template.contents)
    /\ UNCHANGED <<template_data, context_data, engine_detection, template_extension,
                   template, in_memory_template, engine_input, outside_render>>

NextRender ==
    \/ SelectTemplate
    \/ RenderTera
    \/ RenderHandlebars
    \/ RenderLiquid
    \/ RenderUnknown
    \/ RenderNoEngine

SpecRender == InitRender /\ [][NextRender]_vars

(***************************************************************************)
(* RelativePath                                                            *)
(***************************************************************************)
\* A path: whether it starts at the root, and its components.
Path(abs, parts) == [abs |-> abs, parts |-> parts]

\* Path::join: an absolute path replaces the base, a relative one is
\* appended to it.
join(dir, path) ==
    IF path.abs THEN path ELSE Path(dir.abs, dir.parts \o path.parts)

\* Path::parent of a path that has a last component.
parent(path) == Path(path.abs, SubSeq(path.parts, 1, Len(path.parts) - 1))

\* struct RelativePath
RelativePath(relative_path, full_path) ==
    [relative_path |-> relative_path, full_path |-> full_path]

\* RelativePath::new, given what current_exe() returned.
RelativePath_new(exe, path) ==
    IF ~IsOk(exe) THEN exe
    ELSE LET exe_dir == parent(exe.ok)
         IN  Ok(RelativePath(path, join(exe_dir, path)))

\* A variant that resolves against the path resolved before.
cwd_joining_full_path(self, dir) ==
    [self EXCEPT !.full_path = join(dir, self.full_path)]

\* RelativePath::cwd
cwd(self, dir) ==
    [self EXCEPT !.full_path = join(dir, self.relative_path)]

\* The calls of cwd one RelativePath gets.
MaxCwdCalls == 2

\* What current_exe() may return, the paths given to new and the directories
\* given to cwd.
ExePaths ==
    {Ok(Path(TRUE, <<"opt", "osa", "osa-mailer">>)),
     Ok(Path(TRUE, <<"usr", "bin", "osa-mailer">>)),
     Ok(Path(TRUE, <<"osa-mailer">>)),
     Err("io::Error")}
GivenPaths ==
    {Path(FALSE, <<"cfg.toml">>),
     Path(FALSE, <<"subdir", "file.txt">>),
     Path(FALSE, <<".", "foo", "..", "bar.txt">>),
     Path(FALSE, <<>>),
     Path(TRUE, <<"tmp", "absolute_file.txt">>)}
CwdDirs ==
    {Path(TRUE, <<"tmp", "osa_mailer_test_cwd">>),
     Path(TRUE, <<"should", "not", "use">>),
     Path(FALSE, <<"work">>)}

\* Nothing has been read from the RelativePath yet.
NotObserved == [as_ref |-> None, into |-> None, display |-> None]

\* The process runs; no RelativePath exists yet.
InitPath ==
    /\ exe_path \in ExePaths
    /\ rel_path = Unset
    /\ base = Unset
    /\ observed = NotObserved
    /\ unparsed_entries = <<>>
    /\ parse_errors = <<>>
    /\ entries_pool = <<>>
    /\ pc = "raw"
    /\ NotMapped
    /\ RenderNotCalled
    /\ ErrorReportNotUsed
    /\ SendNotUsed
    /\ NoCalls

\* The RelativePath exists and has not been moved into a PathBuf.
Owned == rel_path # Unset /\ IsOk(rel_path) /\ observed.into = None

\* RelativePath::new(path)
New ==
    /\ rel_path = Unset
    /\ \E path \in GivenPaths :
          rel_path' = RelativePath_new(exe_path, path)
    /\ base' = IF IsOk(exe_path)
               THEN [dir |-> parent(exe_path.ok), cwd_calls |-> 0]
               ELSE base
    /\ UNCHANGED <<exe_path, observed, outside_path>>

\* self.cwd(dir): self is moved in, so no reference taken from it with
\* as_ref is alive any more.
Cwd ==
    /\ Owned
    /\ base.cwd_calls < MaxCwdCalls
    /\ \E dir \in CwdDirs :
          /\ rel_path' = Ok(cwd(rel_path.ok, dir))
          /\ base' = [dir |-> dir, cwd_calls |-> base.cwd_calls + 1]
    /\ observed' = [observed EXCEPT !.as_ref = None]
    /\ UNCHANGED <<exe_path, outside_path>>

\* impl AsRef<Path> for RelativePath
AsRef ==
    /\ Owned
    /\ observed' = [observed EXCEPT !.as_ref = Some(rel_path.ok.full_path)]
    /\ UNCHANGED <<exe_path, rel_path, base, outside_path>>

\* impl Display for RelativePath
Display ==
    /\ Owned
    /\ observed' = [observed EXCEPT !.display = Some(rel_path.ok.full_path)]
    /\ UNCHANGED <<exe_path, rel_path, base, outside_path>>

\* impl From<RelativePath> for PathBuf
IntoPathBuf ==
    /\ Owned
    /\ observed' = [observed EXCEPT !.into = Some(rel_path.ok.full_path),
                                    !.as_ref = None]
    /\ UNCHANGED <<exe_path, rel_path, base, outside_path>>

NextPath == New \/ Cwd \/ AsRef \/ Display \/ IntoPathBuf

SpecPath == InitPath /\ [][NextPath]_vars

(***************************************************************************)
(* Vocabulary of the properties                                            *)
(***************************************************************************)
Last(xs) == xs[Len(xs)]

\* The group being composed and the entry the next VisitEntry merges.
CurGroup == email_entries[cur]
ContextAt(i) == CurGroup[i].entry.context
NextContext == ContextAt(visited + 1)
Visiting == pc = "group" /\ visited < Len(CurGroup)

\* An AccumulatedItem: an object holding at least `order` and `value`.
IsAccumulatedItem(v) == IsObj(v) /\ {KeyOrder, KeyValue} \subseteq DOMAIN v.obj
IsAccumulation(v) == IsArr(v) /\ \A i \in 1..Len(v.arr) : IsAccumulatedItem(v.arr[i])
IsItemOf(item, order, v) ==
    /\ IsAccumulatedItem(item)
    /\ item.obj[KeyOrder] = Num(order)
    /\ item.obj[KeyValue] = v

PlusKeys(m) == {k \in DOMAIN m : HasPlus(k)}

\* `+k` is merged into a target whose bare key k holds a value that is not
\* an accumulation.
MeetsOrdinaryValue(k) ==
    /\ Tail(k) \in DOMAIN accumulated_context
    /\ ~IsAccumulation(accumulated_context[Tail(k)])

(***************************************************************************)
(* C1 (as claimed): when `+k` is merged into a target that holds a         *)
(* non-accumulated value at the bare key k, that value is removed and k    *)
(* afterwards holds only AccumulatedItems, the last one the new item.      *)
(***************************************************************************)
C1_AccumulationAlwaysWins ==
    [][(Visiting /\ VisitEntry) =>
          \A k \in PlusKeys(NextContext) :
             MeetsOrdinaryValue(k) =>
                LET after == accumulated_context'[Tail(k)]
                IN  /\ IsAccumulation(after)
                    /\ after.arr # <<>>
                    /\ Last(after.arr).obj[KeyValue] = NextContext[k]]_vars

(***************************************************************************)
(* C1 (amended): when `+k` is merged into a target that holds a            *)
(* non-accumulated value at the bare key k, the prefixed key is removed    *)
(* from the target and the value at k is kept: an array (an ordinary one   *)
(* too) keeps its elements and gets the new item appended, with the        *)
(* array's new length as its order; a scalar or an object stays as it was  *)
(* and the new item is dropped.                                            *)
(***************************************************************************)
C1_OrdinaryValueIsKept ==
    [][(Visiting /\ VisitEntry) =>
          \A k \in PlusKeys(NextContext) :
             MeetsOrdinaryValue(k) =>
                LET before == accumulated_context[Tail(k)]
                    after == accumulated_context'[Tail(k)]
                IN  /\ k \notin DOMAIN accumulated_context'
                    /\ IF IsArr(before)
                       THEN /\ IsArr(after)
                            /\ Len(after.arr) = Len(before.arr) + 1
                            /\ SubSeq(after.arr, 1, Len(before.arr)) = before.arr
                            /\ IsItemOf(Last(after.arr), Len(after.arr), NextContext[k])
                       ELSE after = before]_vars

\* An entry with `+rows` has been merged after an earlier entry wrote an
\* ordinary scalar at `rows`, and the scalar is still there.
C1_Witness ==
    /\ pc = "group"
    /\ visited >= 2
    /\ PlusRows \in DOMAIN ContextAt(visited)
    /\ \E i \in 1..(visited - 1) : ContextAt(i) = Ctx1(KeyRows, Num(5))
    /\ accumulated_context[KeyRows] = Num(5)

(***************************************************************************)
(* C2 (as claimed): two entries with identical headers and the contexts    *)
(* {"+rows":{"id":1}} then {"+rows":{"id":2}} in timestamp order give one  *)
(* batch e-mail whose context is exactly                                   *)
(* {"rows":[{"order":1,"value":{"id":1}},{"order":2,"value":{"id":2}}]}.   *)
(***************************************************************************)
RowsId(n) == Obj(Ctx1(KeyId, Num(n)))

ScenarioB ==
    /\ Len(entries_pool) = 2
    /\ entries_pool[1].entry.email = entries_pool[2].entry.email
    /\ entries_pool[1].entry.context = Ctx1(PlusRows, RowsId(1))
    /\ entries_pool[2].entry.context = Ctx1(PlusRows, RowsId(2))
    /\ Instant(entries_pool[1].entry.utc) <= Instant(entries_pool[2].entry.utc)

OrderValue(order, v) == Obj(Ctx2(KeyOrder, Num(order), KeyValue, v))

C2_OrderAndValueOnly ==
    (pc = "done" /\ ScenarioB) =>
        /\ Len(composed_emails) = 1
        /\ composed_emails[1].context =
               Ctx1(KeyRows, Arr(<<OrderValue(1, RowsId(1)), OrderValue(2, RowsId(2))>>))

(***************************************************************************)
(* C2 (amended): in that scenario the context of the batch e-mail is       *)
(* exactly {"rows":[{"checksum":"445df8c5","order":1,"value":{"id":1}},    *)
(* {"checksum":"6f70ab06","order":2,"value":{"id":2}}]}: the only key is   *)
(* `rows` and every accumulated item has exactly the three fields `order`, *)
(* `checksum` (the lowercase hexadecimal CRC-32 of the value's JSON text)  *)
(* and `value`.                                                            *)
(***************************************************************************)
OrderChecksumValue(order, checksum, v) ==
    Obj((KeyOrder :> Num(order)) @@ (KeyChecksum :> Str(checksum)) @@ (KeyValue :> v))

C2_OrderChecksumValue ==
    (pc = "done" /\ ScenarioB) =>
        /\ Len(composed_emails) = 1
        /\ composed_emails[1].context =
               Ctx1(KeyRows,
                    Arr(<<OrderChecksumValue(1, <<52, 52, 53, 100, 102, 56, 99, 53>>, RowsId(1)),
                          OrderChecksumValue(2, <<54, 102, 55, 48, 97, 98, 48, 54>>, RowsId(2))>>))

\* The run of scenario B has returned its one batch e-mail.
C2_Witness ==
    /\ pc = "done"
    /\ ScenarioB
    /\ Len(composed_emails) = 1
    /\ DOMAIN composed_emails[1].context = {KeyRows}

(***************************************************************************)
(* C3 (as claimed): first-write-wins.  Once the accumulated context holds  *)
(* a value at an ordinary key, at any object-nesting level, merging an     *)
(* entry that carries a different scalar or array value under that key     *)
(* leaves the earlier value unchanged; contexts {"a":1} then {"a":2} give  *)
(* the accumulated context {"a":1}.                                        *)
(***************************************************************************)
RECURSIVE EarlierValuesUnchanged(_, _, _)
EarlierValuesUnchanged(source, before, after) ==
    \A k \in (DOMAIN source \cap DOMAIN before) \ PlusKeys(source) :
        /\ k \in DOMAIN after
        /\ IF IsObj(source[k])
           THEN IsObj(before[k]) =>
                   /\ IsObj(after[k])
                   /\ EarlierValuesUnchanged(source[k].obj, before[k].obj, after[k].obj)
           ELSE source[k] # before[k] => after[k] = before[k]

ScenarioA ==
    /\ pc = "group"
    /\ visited = 2
    /\ Len(CurGroup) = 2
    /\ ContextAt(1) = Ctx1(KeyA, Num(1))
    /\ ContextAt(2) = Ctx1(KeyA, Num(2))

ScenarioAResult == ScenarioA => accumulated_context = Ctx1(KeyA, Num(1))

C3_EarlierValueUnchanged ==
    [][/\ (Visiting /\ VisitEntry) =>
             EarlierValuesUnchanged(NextContext, accumulated_context, accumulated_context')
       /\ ScenarioAResult']_vars

(***************************************************************************)
(* C3 (amended): once the accumulated context holds a value at an ordinary *)
(* key k, at any object-nesting level, merging an entry that carries a     *)
(* different scalar or array value under k never writes that value: the    *)
(* earlier value is unchanged, except that when the same entry also        *)
(* carries `+k` in the same object and the earlier value is an array, the  *)
(* item accumulated for `+k` is appended to it.  Contexts {"a":1} then     *)
(* {"a":2} give the accumulated context {"a":1}.                           *)
(***************************************************************************)
RECURSIVE LaterValueNotWritten(_, _, _)
LaterValueNotWritten(source, before, after) ==
    \A k \in (DOMAIN source \cap DOMAIN before) \ PlusKeys(source) :
        /\ k \in DOMAIN after
        /\ IF IsObj(source[k])
           THEN IsObj(before[k]) =>
                   /\ IsObj(after[k])
                   /\ LaterValueNotWritten(source[k].obj, before[k].obj, after[k].obj)
           ELSE source[k] # before[k] =>
                   IF (<<43>> \o k) \in DOMAIN source /\ IsArr(before[k])
                   THEN /\ IsArr(after[k])
                        /\ Len(after[k].arr) = Len(before[k].arr) + 1
                        /\ SubSeq(after[k].arr, 1, Len(before[k].arr)) = before[k].arr
                        /\ IsItemOf(Last(after[k].arr), Len(after[k].arr),
                                    source[<<43>> \o k])
                   ELSE after[k] = before[k]

C3_LaterValueNotWritten ==
    [][/\ (Visiting /\ VisitEntry) =>
             LaterValueNotWritten(NextContext, accumulated_context, accumulated_context')
       /\ ScenarioAResult']_vars

\* Scenario A has been merged; and so has a conflicting value one level down.
C3_Witness ==
    \/ ScenarioA /\ accumulated_context = Ctx1(KeyA, Num(1))
    \/ /\ pc = "group"
       /\ visited = 2
       /\ ContextAt(1) = Ctx1(KeyA, Obj(Ctx1(KeyId, Num(1))))
       /\ ContextAt(2) = Ctx1(KeyA, Obj(Ctx1(KeyId, Num(2))))
       /\ accumulated_context = ContextAt(1)

(***************************************************************************)
(* Accumulation keys of a context, and the e-mails of a group              *)
(***************************************************************************)
\* A `+` key in the object or in an object below it.
RECURSIVE HasAccumulationKey(_)
HasAccumulationKey(m) ==
    \E k \in DOMAIN m :
        \/ HasPlus(k)
        \/ IsObj(m[k]) /\ HasAccumulationKey(m[k].obj)

\* A `+` key of source in the object, or below keys that the target lacks or
\* maps to objects.
RECURSIVE HasReachableAccumulationKey(_, _)
HasReachableAccumulationKey(source, target) ==
    \E k \in DOMAIN source :
        \/ HasPlus(k)
        \/ /\ IsObj(source[k])
           /\ IF k \in DOMAIN target
              THEN /\ IsObj(target[k])
                   /\ HasReachableAccumulationKey(source[k].obj, target[k].obj)
              ELSE HasAccumulationKey(source[k].obj)

EmailsIn(emails, id) == SelectSeq(emails, LAMBDA m : m.id = id)

\* The e-mail of one entry on its own: its header and its unmerged context.
OwnEmail(id, parsed) ==
    [id |-> id, header |-> parsed.entry.email, context |-> parsed.entry.context]

\* compose_emails is done with the group.
Composed(id) ==
    /\ pc \in {"mapped", "group", "done"}
    /\ id \in DOMAIN email_entries \ pending

(***************************************************************************)
(* C4 (as claimed): in a group whose first entry has no accumulation key   *)
(* and whose second entry has one, the first entry's own e-mail is emitted *)
(* before the switch and stays in the output, the group is in Batch mode   *)
(* from the second entry onward, and the second entry emits no e-mail of   *)
(* its own.                                                                *)
(***************************************************************************)
NonRetroactive(id) ==
    LET group == email_entries[id]
        emails == EmailsIn(composed_emails, id)
        first == OwnEmail(id, group[1])
    IN  /\ (pc = "group" /\ cur = id /\ visited = 1) =>
               email_compose_method = "Single" /\ emails = <<first>>
        /\ (pc = "group" /\ cur = id /\ visited >= 2) =>
               email_compose_method = "Batch" /\ emails = <<first>>
        /\ Composed(id) =>
               /\ Len(emails) = 2
               /\ emails[1] = first
               /\ emails[2].header = group[1].entry.email

C4_SecondEntryWithKey ==
    \A id \in DOMAIN email_entries :
        LET group == email_entries[id]
        IN  (/\ Len(group) >= 2
             /\ ~HasAccumulationKey(group[1].entry.context)
             /\ HasAccumulationKey(group[2].entry.context))
            => NonRetroactive(id)

(***************************************************************************)
(* C4 (amended): the same, for a group whose first entry has no            *)
(* accumulation key and whose second entry has one at the top level of its *)
(* context or below keys that the first entry's context lacks or maps to   *)
(* objects (an accumulation key below a key at which the first entry wrote *)
(* a scalar or an array is never scanned, and the second entry is then     *)
(* emitted on its own like the first).                                     *)
(***************************************************************************)
C4_SecondEntryWithReachableKey ==
    \A id \in DOMAIN email_entries :
        LET group == email_entries[id]
        IN  (/\ Len(group) >= 2
             /\ ~HasAccumulationKey(group[1].entry.context)
             /\ HasReachableAccumulationKey(group[2].entry.context,
                                            group[1].entry.context))
            => NonRetroactive(id)

\* A group of three is composed: the first entry's e-mail, then the batch.
C4_Witness ==
    \E id \in DOMAIN email_entries :
        LET group == email_entries[id]
        IN  /\ Len(group) = 3
            /\ ~HasAccumulationKey(group[1].entry.context)
            /\ HasReachableAccumulationKey(group[2].entry.context, group[1].entry.context)
            /\ Composed(id)
            /\ Len(EmailsIn(composed_emails, id)) = 2
            /\ EmailsIn(composed_emails, id)[1] = OwnEmail(id, group[1])
            /\ PlusRows \notin DOMAIN EmailsIn(composed_emails, id)[2].context

(***************************************************************************)
(* C5: once a group is in Batch mode no later entry emits an e-mail of its *)
(* own, and the mode stays Batch; after the last entry has been merged     *)
(* exactly one batch e-mail is emitted for the group, with the header of   *)
(* the group's first entry and the accumulated context, after the          *)
(* Single-mode e-mails of the group.                                       *)
(***************************************************************************)
C5_BatchEmitsOnceAtEnd ==
    [][/\ (Visiting /\ email_compose_method = "Batch" /\ VisitEntry) =>
             /\ composed_emails' = composed_emails
             /\ email_compose_method' = "Batch"
       /\ (pc = "group" /\ email_compose_method = "Batch" /\ GroupEnd) =>
             LET emails == EmailsIn(composed_emails', cur)
             IN  /\ visited = Len(CurGroup)
                 /\ composed_emails' =
                        Append(composed_emails,
                               [id |-> cur, header |-> CurGroup[1].entry.email,
                                context |-> accumulated_context])
                 /\ Len(emails) <= Len(CurGroup)
                 /\ \A i \in 1..(Len(emails) - 1) : emails[i] = OwnEmail(cur, CurGroup[i])]_vars

\* One entry was emitted alone, the next switched to Batch, a third without
\* any accumulation key was merged after it, and the group has ended.
C5_Witness ==
    \E id \in DOMAIN email_entries :
        LET group == email_entries[id]
        IN  /\ Composed(id)
            /\ Len(group) = 3
            /\ PlusRows \in DOMAIN group[2].entry.context
            /\ ~HasAccumulationKey(group[3].entry.context)
            /\ Len(EmailsIn(composed_emails, id)) = 2
            /\ KeyRows \in DOMAIN composed_emails[Len(composed_emails)].context

(***************************************************************************)
(* C6: an entry after whose merge the group is still in Single mode emits  *)
(* exactly one e-mail at once, with the group's identity, the entry's own  *)
(* header and its own unmerged context; a group without any accumulation   *)
(* key yields one e-mail per entry, in timestamp order.                    *)
(***************************************************************************)
OneEmailPerEntry(id) ==
    LET group == email_entries[id]
        emails == EmailsIn(composed_emails, id)
    IN  /\ Len(emails) = Len(group)
        /\ \A i \in 1..Len(group) : emails[i] = OwnEmail(id, group[i])
        /\ \A i, j \in 1..Len(group) :
              i < j => Instant(group[i].entry.utc) <= Instant(group[j].entry.utc)

C6_SingleEmitsOwnEmail ==
    [][/\ (Visiting /\ VisitEntry /\ email_compose_method' = "Single") =>
             composed_emails' = Append(composed_emails, OwnEmail(cur, CurGroup[visited + 1]))
       /\ \A id \in DOMAIN email_entries' :
             (/\ Composed(id)'
              /\ \A i \in 1..Len(email_entries'[id]) :
                    ~HasAccumulationKey(email_entries'[id][i].entry.context))
             => OneEmailPerEntry(id)']_vars

\* The second entry of a Single group was emitted with its own context while
\* the accumulated context also holds the first entry's key.
C6_Witness ==
    /\ pc = "group"
    /\ visited = 2
    /\ email_compose_method = "Single"
    /\ ContextAt(1) = Ctx1(KeyA, Num(1))
    /\ ContextAt(2) = Ctx1(KeyRows, Num(5))
    /\ accumulated_context = Ctx2(KeyA, Num(1), KeyRows, Num(5))
    /\ Last(composed_emails).context = Ctx1(KeyRows, Num(5))

(***************************************************************************)
(* C7 (as claimed): if an entry has a `+` key at any object-nesting depth  *)
(* of its context, the group's mode is Batch as soon as the entry has been *)
(* merged, whatever the earlier entries wrote on the path to that key, and *)
(* it stays Batch for the rest of the group.                               *)
(***************************************************************************)
C7_AnyKeySwitchesToBatch ==
    [][(Visiting /\ VisitEntry) =>
          /\ HasAccumulationKey(NextContext) => email_compose_method' = "Batch"
          /\ email_compose_method = "Batch" => email_compose_method' = "Batch"]_vars

(***************************************************************************)
(* C7 (amended): if an entry has a `+` key at the top level of its context *)
(* or below keys that the accumulated context lacks or maps to objects,    *)
(* the group's mode is Batch as soon as the entry has been merged, and it  *)
(* stays Batch for the rest of the group; a `+` key below a key at which   *)
(* an earlier entry wrote a scalar or an array is not scanned and does not *)
(* switch the mode.                                                        *)
(***************************************************************************)
C7_ReachableKeySwitchesToBatch ==
    [][(Visiting /\ VisitEntry) =>
          /\ HasReachableAccumulationKey(NextContext, accumulated_context)
                => email_compose_method' = "Batch"
          /\ (/\ email_compose_method = "Single"
              /\ ~HasReachableAccumulationKey(NextContext, accumulated_context))
                => email_compose_method' = "Single"
          /\ email_compose_method = "Batch" => email_compose_method' = "Batch"]_vars

\* A second entry with a nested `+` key has switched the group to Batch,
\* below a key at which the first entry wrote an object.
C7_Witness ==
    /\ pc = "group"
    /\ visited = 2
    /\ ContextAt(1) = Ctx1(KeyA, Obj(Ctx1(KeyId, Num(1))))
    /\ ContextAt(2) = Ctx1(KeyA, Obj(Ctx1(PlusRows, Num(1))))
    /\ email_compose_method = "Batch"
    /\ KeyRows \in DOMAIN accumulated_context[KeyA].obj

(***************************************************************************)
(* C8 (as claimed): for a group of N entries that each contain the same    *)
(* accumulation key (`+items`; here any `+` key of the entries) at the     *)
(* same place of their context, the accumulated context holds under the    *)
(* bare key exactly N items with the orders 1..N, item i carrying the      *)
(* value of the i-th entry in arrival order.                               *)
(***************************************************************************)
\* The places of the model's contexts: the root object and the object at `a`.
Places == {<<>>, <<KeyA>>}

RECURSIVE HoldsAt(_, _, _)
HoldsAt(m, place, k) ==
    IF place = <<>> THEN k \in DOMAIN m
    ELSE /\ Head(place) \in DOMAIN m
         /\ IsObj(m[Head(place)])
         /\ HoldsAt(m[Head(place)].obj, Tail(place), k)

RECURSIVE ValueAt(_, _, _)
ValueAt(m, place, k) ==
    IF place = <<>> THEN m[k] ELSE ValueAt(m[Head(place)].obj, Tail(place), k)

\* The entries of a group in arrival order (ParsedEntry ids ascend with arrival).
RECURSIVE InArrivalOrder(_)
InArrivalOrder(S) ==
    IF S = {} THEN <<>>
    ELSE LET e == CHOOSE x \in S : \A y \in S : x.id <= y.id
         IN  <<e>> \o InArrivalOrder(S \ {e})

Range(xs) == {xs[i] : i \in 1..Len(xs)}

\* The entries of a group by ascending instant, equal instants by arrival.
RECURSIVE InTimestampOrder(_)
InTimestampOrder(S) ==
    IF S = {} THEN <<>>
    ELSE LET e == CHOOSE x \in S : \A y \in S :
                      \/ Instant(x.entry.utc) < Instant(y.entry.utc)
                      \/ /\ Instant(x.entry.utc) = Instant(y.entry.utc)
                         /\ x.id <= y.id
         IN  <<e>> \o InTimestampOrder(S \ {e})

AllMerged == pc = "group" /\ visited = Len(CurGroup)

\* The bare key holds one item per entry of `entries`, in their order.
OneItemPerEntry(entries, place, k) ==
    /\ HoldsAt(accumulated_context, place, Tail(k))
    /\ LET items == ValueAt(accumulated_context, place, Tail(k))
       IN  /\ IsArr(items)
           /\ Len(items.arr) = Len(entries)
           /\ \A i \in 1..Len(entries) :
                 IsItemOf(items.arr[i], i, ValueAt(entries[i].entry.context, place, k))

AllHold(place, k) == \A i \in 1..Len(CurGroup) : HoldsAt(ContextAt(i), place, k)

C8_ItemsInArrivalOrder ==
    AllMerged =>
        \A place \in Places : \A k \in {PlusRows} :
            AllHold(place, k) =>
                OneItemPerEntry(InArrivalOrder(Range(CurGroup)), place, k)

(***************************************************************************)
(* C8 (amended): for a group of N entries that each contain the same       *)
(* accumulation key at the same place of their context, and whose first    *)
(* entry in timestamp order has no ordinary key of the bare name at that   *)
(* place, the accumulated context holds under the bare key exactly N items *)
(* with the orders 1..N, item i carrying the value of the i-th entry in    *)
(* timestamp order (entries of equal timestamps in arrival order).         *)
(***************************************************************************)
C8_ItemsInTimestampOrder ==
    AllMerged =>
        \A place \in Places : \A k \in {PlusRows} :
            LET entries == InTimestampOrder(Range(CurGroup))
            IN  (/\ AllHold(place, k)
                 /\ ~HoldsAt(entries[1].entry.context, place, Tail(k))) =>
                    OneItemPerEntry(entries, place, k)

\* Three entries with `+rows` are merged, in an order that is not the
\* arrival order; and so are three with `+rows` below `a`.
C8_Witness ==
    /\ AllMerged
    /\ Len(CurGroup) = 3
    /\ \/ /\ AllHold(<<>>, PlusRows)
          /\ CurGroup # InArrivalOrder(Range(CurGroup))
          /\ Len(accumulated_context[KeyRows].arr) = 3
       \/ /\ AllHold(<<KeyA>>, PlusRows)
          /\ Len(accumulated_context[KeyA].obj[KeyRows].arr) = 3

(***************************************************************************)
(* C9: after map_emails every group lists its entries in ascending order   *)
(* of their timestamps, compared as instants whatever their UTC offsets,   *)
(* entries of equal timestamps in arrival order; compose_emails merges and *)
(* emits the entries of a group in that order.                             *)
(***************************************************************************)
SortedStable(group) ==
    \A i, j \in 1..Len(group) :
        i < j =>
            \/ Instant(group[i].entry.utc) < Instant(group[j].entry.utc)
            \/ /\ Instant(group[i].entry.utc) = Instant(group[j].entry.utc)
               /\ group[i].id < group[j].id

C9_TimestampOrder ==
    pc # "loaded" =>
        /\ \A id \in DOMAIN email_entries : SortedStable(email_entries[id])
        /\ pc = "group" =>
              /\ email_compose_method = "Single" =>
                    EmailsIn(composed_emails, cur) =
                        [i \in 1..visited |-> OwnEmail(cur, CurGroup[i])]
              /\ (\A i \in 1..Len(CurGroup) : DOMAIN ContextAt(i) = {PlusRows}) =>
                    /\ visited = 0 => PlusRows \in DOMAIN accumulated_context
                    /\ visited > 0 =>
                          /\ Len(accumulated_context[KeyRows].arr) = visited
                          /\ \A i \in 1..visited :
                                accumulated_context[KeyRows].arr[i].obj[KeyValue]
                                    = ContextAt(i)[PlusRows]

\* A group holds, in this order, an entry that arrived last (11:00+02:00)
\* and two entries of one instant and different offsets in arrival order,
\* and the three are merged.
C9_Witness ==
    /\ AllMerged
    /\ Len(CurGroup) = 3
    /\ CurGroup[1].id = 3 /\ CurGroup[1].entry.utc = Utc(660, 120)
    /\ CurGroup[2].id = 1 /\ CurGroup[2].entry.utc = Utc(720, 120)
    /\ CurGroup[3].id = 2 /\ CurGroup[3].entry.utc = Utc(600, 0)

(***************************************************************************)
(* C10: map_emails puts two parsed entries in the same group if and only   *)
(* if email_id returns the same value for both; two entries whose headers  *)
(* have the same JSON encoding get the same identity and the same group,   *)
(* whatever their ids, timestamps, contexts and arrival positions; headers *)
(* that differ in the order of the elements of an array have different     *)
(* encodings.                                                              *)
(***************************************************************************)
SameGroup(p, q) ==
    \E id \in DOMAIN email_entries :
        {p, q} \subseteq Range(email_entries[id])

Encodings == [h \in Headers |-> serialize_email(h)] @@ EmptyMap

ArrayFields == {"to", "cc", "bcc", "reply_to", "attachments"}

IsReordering(xs, ys) ==
    /\ xs # ys
    /\ Len(xs) = Len(ys)
    /\ \E f \in [1..Len(xs) -> 1..Len(xs)] :
          /\ \A i, j \in 1..Len(xs) : i # j => f[i] # f[j]
          /\ \A i \in 1..Len(xs) : ys[i] = xs[f[i]]

DifferInArrayOrder(g, h) ==
    /\ \A name \in DOMAIN g : g[name] # h[name] => name \in ArrayFields
    /\ \E name \in ArrayFields : IsReordering(g[name], h[name])

C10_GroupedByEmailId ==
    pc # "loaded" =>
        \A i, j \in 1..Len(entries_pool) :
            LET p == entries_pool[i]
                q == entries_pool[j]
            IN  /\ SameGroup(p, q) <=> email_id(p) = email_id(q)
                /\ Encodings[p.entry.email] = Encodings[q.entry.email] =>
                      email_id(p) = email_id(q) /\ SameGroup(p, q)
                /\ DifferInArrayOrder(p.entry.email, q.entry.email) =>
                      Encodings[p.entry.email] # Encodings[q.entry.email]

\* Two entries of one header with different timestamps and contexts share a
\* group, and an entry whose recipients are in the other order is elsewhere.
C10_Witness ==
    /\ pc = "mapped"
    /\ Len(entries_pool) = 3
    /\ entries_pool[1].entry.email = entries_pool[3].entry.email
    /\ entries_pool[1].entry.utc # entries_pool[3].entry.utc
    /\ entries_pool[1].entry.context # entries_pool[3].entry.context
    /\ DifferInArrayOrder(entries_pool[1].entry.email, entries_pool[2].entry.email)
    /\ SameGroup(entries_pool[1], entries_pool[3])
    /\ ~SameGroup(entries_pool[1], entries_pool[2])

(***************************************************************************)
(* C11: after map_emails, for every pool, no group is empty and every      *)
(* parsed entry of the pool is in exactly one group, exactly once, the     *)
(* groups holding nothing else; the lookup of a group's first entry in     *)
(* compose_emails therefore finds one.                                     *)
(***************************************************************************)
\* The places (group, position) at which the groups hold the entry.
PlacesOf(parsed) ==
    UNION {{<<id, j>> : j \in {n \in DOMAIN email_entries[id] :
                                  email_entries[id][n] = parsed}} :
           id \in DOMAIN email_entries}

C11_GroupsPartitionPool ==
    pc \in {"mapped", "group", "done"} =>
        /\ \A id \in DOMAIN email_entries : email_entries[id] # <<>>
        /\ \A i \in 1..Len(entries_pool) :
              Cardinality(PlacesOf(entries_pool[i])) = 1
        /\ \A id \in DOMAIN email_entries :
              Range(email_entries[id]) \subseteq Range(entries_pool)
        /\ pc = "group" =>
              /\ Len(CurGroup) >= 1
              /\ email = CurGroup[1].entry.email

\* Three entries are mapped into two groups, of two entries and of one, and
\* compose_emails has looked up the first entry of the larger one.
C11_Witness ==
    /\ pc = "group"
    /\ Len(entries_pool) = 3
    /\ Cardinality(DOMAIN email_entries) = 2
    /\ Len(CurGroup) = 2
    /\ email = CurGroup[1].entry.email

(***************************************************************************)
(* C12: parse_entities puts every raw entry in exactly one of two disjoint *)
(* collections: the parsed one if its content deserializes into an Entry,  *)
(* else the failures, with its raw content and the decode error.  A        *)
(* failing entry does not stop the run, changes the result for no other    *)
(* entry, and is in no group and no composed e-mail.                       *)
(***************************************************************************)
Parses(unparsed_entry) == IsOk(from_str(unparsed_entry.content))

\* What an entry file gives on its own.
ParsedAlone(unparsed_entry) ==
    ParsedEntry(unparsed_entry.id, from_str(unparsed_entry.content).ok)
FailedAlone(unparsed_entry) ==
    EntryParseError(unparsed_entry, from_str(unparsed_entry.content).err)

MapSeq(xs, F(_)) == [i \in 1..Len(xs) |-> F(xs[i])]

Loaded == pc \in {"loaded", "mapped", "group", "done"}

C12_ParsedOrFailed ==
    /\ pc = "raw" => ENABLED ParseEntities
    /\ Loaded =>
          /\ entries_pool =
                MapSeq(SelectSeq(unparsed_entries, Parses), ParsedAlone)
          /\ parse_errors =
                MapSeq(SelectSeq(unparsed_entries, LAMBDA u : ~Parses(u)), FailedAlone)
          /\ \A u \in Range(unparsed_entries) :
                Cardinality({i \in DOMAIN entries_pool : entries_pool[i].id = u.id})
                + Cardinality({i \in DOMAIN parse_errors :
                                  parse_errors[i].entry_content = u}) = 1
          /\ \A id \in DOMAIN email_entries : \A p \in Range(email_entries[id]) :
                /\ p \in Range(entries_pool)
                /\ \A e \in Range(parse_errors) : p.id # e.entry_content.id
          /\ \A m \in Range(composed_emails) :
                \E p \in Range(entries_pool) :
                    m.id = email_id(p) /\ m.header = p.entry.email
          /\ (pc = "loaded" => ENABLED MapEmails)
          /\ (pc = "mapped" => ENABLED GroupStart \/ ENABLED Return)

\* Three files, the second of them no JSON: the run is done, one failure is
\* reported, and the first and third entries made the e-mails.
C12_Witness ==
    /\ pc = "done"
    /\ Len(unparsed_entries) = 3
    /\ unparsed_entries[2].content = Malformed
    /\ Len(parse_errors) = 1
    /\ parse_errors[1].entry_content = unparsed_entries[2]
    /\ parse_errors[1].error.category = "Syntax"
    /\ Len(entries_pool) = 2
    /\ entries_pool[1].id = 1 /\ entries_pool[2].id = 3
    /\ composed_emails # <<>>

(***************************************************************************)
(* C13: first-write-wins is idempotent.  For a context c without           *)
(* accumulation keys and an accumulator t, merging c into t a second time  *)
(* leaves t as it was after the first merge; merging the first entry's     *)
(* context into the accumulator seeded with it changes nothing.            *)
(***************************************************************************)
MergedTwice(c, t) ==
    LET once == copy_and_accumulate(c, t, "Single")
        twice == copy_and_accumulate(c, once.target, once.method)
    IN  twice = once /\ once.method = "Single"

\* Every context of the model as the accumulator t.
MergedTwiceOnContexts ==
    \A c \in Contexts : \A t \in Contexts :
        ~HasAccumulationKey(c) => MergedTwice(c, t)

C13_SecondMergeChangesNothing ==
    [][/\ (Visiting /\ VisitEntry /\ ~HasAccumulationKey(NextContext)) =>
             /\ MergedTwice(NextContext, accumulated_context)
             /\ copy_and_accumulate(NextContext, accumulated_context',
                                    email_compose_method').target
                    = accumulated_context'
             /\ visited = 0 => /\ accumulated_context' = accumulated_context
                               /\ accumulated_context' = NextContext
       /\ MapEmails => MergedTwiceOnContexts]_vars

\* Entries without accumulation keys were merged into an accumulator that
\* held other keys, an array and a nested object among them; a further
\* merge of the last one changes nothing.
C13_Witness ==
    /\ pc = "group"
    /\ visited = 3
    /\ ContextAt(1) = Ctx1(KeyRows, Arr(<<Num(7)>>))
    /\ ContextAt(2) = Ctx1(KeyA, Obj(Ctx1(KeyId, Num(1))))
    /\ ContextAt(3) = Ctx1(KeyA, Obj(Ctx1(KeyId, Num(2))))
    /\ accumulated_context = Ctx2(KeyRows, Arr(<<Num(7)>>), KeyA, Obj(Ctx1(KeyId, Num(1))))
    /\ copy_and_accumulate(ContextAt(3), accumulated_context, "Single").target
           = accumulated_context

(***************************************************************************)
(* Rendering: the properties                                               *)
(***************************************************************************)
RenderReturned == result # Unset
Forced == engine_detection # Auto
RecognizedExtension == FromExtension(template_data) # None
HasMarker == find(template_data.contents) # None

\* C14: NoEngine gives the template text back byte for byte, whatever the
\* context, and calls no engine; NoEngine is what render takes when it is
\* forced to None and what auto-detection takes for a source with neither a
\* recognized extension nor a marker.
C14_NoEngineIsVerbatim ==
    /\ (template # Unset /\ (engine_detection = Force("None")
                             \/ (engine_detection = Auto /\ ~RecognizedExtension
                                 /\ ~HasMarker)))
          => template.kind = "NoEngine"
    /\ (RenderReturned /\ template.kind = "NoEngine")
          => /\ result = Ok(template_data.contents)
             /\ engine_input = Unset

\* Auto-detection has rendered a body after a blank, from a path
\* with the extension html, with a context that has a key.
C14_Witness ==
    /\ RenderReturned
    /\ engine_detection = Auto
    /\ template_data.contents = Blank \o Body
    /\ template_data.file_path = Some(<<47, 116, 47, 109, 46, 104, 116, 109, 108>>)
    /\ context_data # Obj(EmptyMap)
    /\ result = Ok(Blank \o Body)

\* The extension of the source path, if there is a path and it has one.
SourceExtension ==
    IF template_data.file_path = None THEN None
    ELSE extension(template_data.file_path[1])
PathTera == <<47, 116, 47, 109, 46, 116, 101, 114, 97>>
PathUpperTera == <<47, 116, 47, 109, 46, 84, 69, 82, 65>>
PathDotTera == <<47, 116, 47, 46, 116, 101, 114, 97>>

\* C15: under auto-detection the extension tera, hbs or liq of the source
\* path selects Tera, Handlebars or Liquid whatever marker the text holds;
\* any other extension (TERA in capitals too), a path without extension (a
\* file named .tera too) or no path leaves the choice to the scan of the
\* text for a marker.
C15_ExtensionBeforeMarker ==
    (template # Unset /\ engine_detection = Auto)
        => /\ SourceExtension = Some(NameTera) => template.kind = "Tera"
           /\ SourceExtension = Some(NameHbs) => template.kind = "Handlebars"
           /\ SourceExtension = Some(NameLiq) => template.kind = "Liquid"
           /\ SourceExtension \notin {Some(NameTera), Some(NameHbs), Some(NameLiq)}
                 => template = Template_from_str(template_data.contents)
           /\ template_data.file_path = Some(PathTera) => template.kind = "Tera"
           /\ template_data.file_path \in {None, Some(PathUpperTera), Some(PathDotTera)}
                 => template = Template_from_str(template_data.contents)

\* A template from a path ending in .tera whose text names liq in a marker
\* has been taken for Tera.
C15_Witness ==
    /\ engine_detection = Auto
    /\ template_data.file_path = Some(PathTera)
    /\ template_data.contents = Marker(NameLiq) \o Body
    /\ template # Unset
    /\ template.kind = "Tera"

\* The engine an engine name stands for in TemplateEngine::from_str, as the
\* kind of Template render would match on; "Unknown" for a rejected name.
KindOfName(name) ==
    LET engine == TemplateEngine_from_str(name)
    IN  IF ~IsOk(engine) THEN "Unknown"
        ELSE IF engine.ok = "None" THEN "NoEngine"
        ELSE engine.ok

\* The source is a marker naming the engine, then the body; its path, if it
\* has one, has no recognized extension; the engine is detected.
MarkerDecides(name) ==
    /\ engine_detection = Auto
    /\ ~RecognizedExtension
    /\ template_data.contents = Marker(name) \o Body
    /\ template # Unset

\* C16 as stated: under auto-detection with no recognized extension, a
\* marker naming tera, liquid, liq, handlebars, hbs or none, in any letter
\* case, selects the engine TemplateEngine::from_str gives for the name.
C16_MarkerSelectsAsFromStr ==
    \A name \in MarkerNames :
        (MarkerDecides(name) /\ IsOk(TemplateEngine_from_str(name)))
            => template.kind = KindOfName(name)

\* C16: under auto-detection with no recognized extension, a marker naming
\* tera, liquid, liq, handlebars or hbs, in any letter case, selects the
\* engine TemplateEngine::from_str gives for the name, and that engine is
\* the one render calls, with the text after the marker; the name none in a
\* marker selects no engine: the template is Unknown and render returns the
\* unknown-engine error.
C16_MarkerSelectsEngine ==
    \A name \in MarkerNames :
        MarkerDecides(name) =>
            /\ (IsOk(TemplateEngine_from_str(name)) /\ to_lowercase(name) # NameNone)
                  => /\ template.kind = KindOfName(name)
                     /\ engine_input # Unset
                           => engine_input = EngineInput(KindOfName(name), Body, context_data)
                     /\ (RenderReturned /\ IsOk(result))
                           => result = Ok(Rendered(KindOfName(name), Body, context_data))
            /\ to_lowercase(name) = NameNone
                  => /\ template.kind = "Unknown"
                     /\ template.engine = NameNone
                     /\ engine_input = Unset
                     /\ RenderReturned => result = Err([unknown_engine |-> NameNone])

\* The marker names HBS in capitals and Handlebars has rendered the body.
C16_Witness ==
    /\ MarkerDecides(<<72, 66, 83>>)
    /\ template_data.file_path = Some(PathUpperTera)
    /\ result = Ok(Rendered("Handlebars", Body, context_data))

\* The marker names none and render has returned the unknown-engine error.
C16_NoneInMarker ==
    /\ MarkerDecides(NameNone)
    /\ result = Err([unknown_engine |-> NameNone])

\* The text holds a marker whose name, in lower case, is none of the five a
\* marker may use, and the marker is what decides.
UnknownMarkerDecides ==
    /\ engine_detection = Auto
    /\ ~RecognizedExtension
    /\ HasMarker
    /\ to_lowercase(find(template_data.contents)[1].engine)
          \notin {NameTera, NameLiquid, NameLiq, NameHandlebars, NameHbs}

\* C17: under auto-detection with no recognized extension, a marker naming
\* an engine that is none of the marker's engines makes render return the
\* unknown-engine error: a returned Err carrying the name, with no engine
\* called and nothing rendered; render returns in every case, so the caller
\* goes on.
C17_UnknownEngineIsReturnedError ==
    /\ (UnknownMarkerDecides /\ template # Unset)
          => /\ template.kind = "Unknown"
             /\ engine_input = Unset
             /\ ~RenderReturned => ENABLED RenderUnknown
             /\ RenderReturned
                   => /\ ~IsOk(result)
                      /\ result = Err([unknown_engine |->
                            to_lowercase(find(template_data.contents)[1].engine)])
    /\ \A name \in {NameFoo} :
          (MarkerDecides(name) /\ RenderReturned)
              => result = Err([unknown_engine |-> NameFoo])

\* The marker names foo and render has returned the error.
C17_Witness ==
    /\ MarkerDecides(NameFoo)
    /\ template_data.file_path = None
    /\ result = Err([unknown_engine |-> NameFoo])
    /\ engine_input = Unset

\* The first marker of the source text, as the bytes it is written with.
FirstMarker ==
    LET m == find(template_data.contents)[1]
    IN  SubSeq(template_data.contents, m.start, m.end)
Contains(text, pat) == OccurrenceFrom(text, pat, 1) # 0
MarkerSelects == engine_detection = Auto /\ ~RecognizedExtension

\* C18 as stated: whenever the source text holds a marker, the text handed
\* to the engine, and the output of NoEngine, does not hold that marker,
\* however the engine was selected.
C18_MarkerNeverReachesEngine ==
    HasMarker =>
        /\ engine_input # Unset => ~Contains(engine_input.contents, FirstMarker)
        /\ (RenderReturned /\ template # Unset /\ template.kind = "NoEngine")
              => ~Contains(result.ok, FirstMarker)

\* C18: when the marker selects the engine (auto-detection, no recognized
\* extension), the engine gets the text without the first occurrence of the
\* marker, trimmed of white space at both ends; when a recognized extension
\* or a forced engine selects, the engine gets, and NoEngine returns, the
\* source text as it is, marker included.
C18_MarkerStrippedWhenItSelects ==
    /\ (HasMarker /\ engine_input # Unset)
          => engine_input.contents =
                IF MarkerSelects
                THEN trim(replacen(template_data.contents, FirstMarker))
                ELSE template_data.contents
    /\ (HasMarker /\ RenderReturned /\ template.kind = "NoEngine")
          => /\ Forced
             /\ result = Ok(template_data.contents)
    /\ \A name \in {NameTera, NameLiq, NameHandlebars} :
          (MarkerSelects /\ engine_input # Unset)
              => /\ template_data.contents \in {Marker(name) \o Body, Body \o Marker(name)}
                       => engine_input.contents = Body
                 /\ template_data.contents \in {Marker(name) \o Blank, Blank \o Marker(name)}
                       => engine_input.contents = <<>>
                 /\ template_data.contents = Marker(name) \o Marker(name)
                       => engine_input.contents = Marker(name)

\* Liquid has been called with the empty text that is left of a marker naming
\* liq and white space.
C18_Witness ==
    /\ MarkerSelects
    /\ template_data.contents = Marker(NameLiq) \o Blank
    /\ engine_input = EngineInput("Liquid", <<>>, context_data)
    /\ RenderReturned

\* The kind of Template a forced engine stands for.
ForcedKind == IF engine_detection.engine = "None" THEN "NoEngine" ELSE engine_detection.engine

\* C19: with Force(e) the engine is e for every source path and every
\* text, a text with a marker naming another or an unknown engine included:
\* the template is never Unknown, no unknown-engine error is returned, the
\* engine called is e, and the text it gets is the source text unmodified.
C19_ForceBypassesDetection ==
    (Forced /\ template # Unset)
        => /\ template = Template(ForcedKind, template_data.contents)
           /\ engine_input # Unset
                 => engine_input = EngineInput(engine_detection.engine,
                                               template_data.contents, context_data)
           /\ RenderReturned
                 => /\ result \notin {Err([unknown_engine |-> name]) : name \in MarkerNames}
                    /\ IsOk(result)
                          => result = IF ForcedKind = "NoEngine"
                                      THEN Ok(template_data.contents)
                                      ELSE Ok(Rendered(ForcedKind, template_data.contents,
                                                       context_data))

\* Tera was forced on a text from a path ending in .hbs whose marker names
\* foo, and has rendered the text, marker and all.
C19_Witness ==
    /\ engine_detection = Force("Tera")
    /\ template_data.file_path = Some(<<47, 116, 47, 109, 46, 104, 98, 115>>)
    /\ template_data.contents = Marker(NameFoo) \o Body
    /\ result = Ok(Rendered("Tera", Marker(NameFoo) \o Body, context_data))

(***************************************************************************)
(* RelativePath: the properties                                            *)
(***************************************************************************)
Constructed == rel_path # Unset /\ IsOk(rel_path)

\* C20: full_path is base.join(relative_path), where base is the directory
\* of the executable right after new and the directory of the latest cwd
\* call afterwards: a relative path is appended to the base, an absolute
\* one is full_path itself after any number of cwd calls; as_ref and the
\* conversion into a PathBuf both give full_path.
C20_FullPathIsBaseJoined ==
    Constructed =>
        /\ base.cwd_calls = 0 => base.dir = parent(exe_path.ok)
        /\ base.cwd_calls > 0 => base.dir \in CwdDirs
        /\ rel_path.ok.relative_path \in GivenPaths
        /\ rel_path.ok.full_path = join(base.dir, rel_path.ok.relative_path)
        /\ rel_path.ok.relative_path.abs
              => rel_path.ok.full_path = rel_path.ok.relative_path
        /\ ~rel_path.ok.relative_path.abs
              => /\ rel_path.ok.full_path.abs = base.dir.abs
                 /\ rel_path.ok.full_path.parts
                       = base.dir.parts \o rel_path.ok.relative_path.parts
        /\ observed.as_ref \in {None, Some(rel_path.ok.full_path)}
        /\ observed.into \in {None, Some(rel_path.ok.full_path)}

\* A relative path was given, cwd was called twice, and the conversion into
\* a PathBuf has given the path under the directory of the second call.
C20_Witness ==
    /\ Constructed
    /\ base = [dir |-> Path(TRUE, <<"tmp", "osa_mailer_test_cwd">>), cwd_calls |-> 2]
    /\ rel_path.ok.relative_path = Path(FALSE, <<"subdir", "file.txt">>)
    /\ observed.into
          = Some(Path(TRUE, <<"tmp", "osa_mailer_test_cwd", "subdir", "file.txt">>))
    /\ observed.display # None

(***************************************************************************)
(* Nested objects of a context                                             *)
(***************************************************************************)
OrdinaryKeys(m) == DOMAIN m \ PlusKeys(m)
ObjectKeys(m) == {k \in OrdinaryKeys(m) : IsObj(m[k])}

\* The nested target the merge of source[k] works on: the object the target
\* holds at k, or nothing yet.
NestedBefore(target, k) == IF k \in DOMAIN target THEN target[k].obj ELSE EmptyMap

\* The target holds an object at k, or nothing.
NestedTarget(target, k) == k \in DOMAIN target => IsObj(target[k])

(***************************************************************************)
(* C22 (as claimed): for an ordinary source key whose value is an object,  *)
(* the merge recurses into the object the target holds at that key, or     *)
(* creates it when the key is absent; afterwards the nested target object  *)
(* contains every ordinary key of the source object that it did not hold   *)
(* before, with the source's value, keeps its own earlier values for keys  *)
(* present in both, and holds accumulated collections for the nested       *)
(* accumulation keys.                                                      *)
(***************************************************************************)
NestedMergedAsClaimed(s, b, a) ==
    /\ \A j \in OrdinaryKeys(s) \ DOMAIN b : j \in DOMAIN a /\ a[j] = s[j]
    /\ \A j \in OrdinaryKeys(s) \cap DOMAIN b : j \in DOMAIN a /\ a[j] = b[j]
    /\ \A j \in PlusKeys(s) : Tail(j) \in DOMAIN a /\ IsAccumulation(a[Tail(j)])

C22_NestedMergeAsClaimed ==
    [][(Visiting /\ VisitEntry) =>
          \A k \in ObjectKeys(NextContext) :
             NestedTarget(accumulated_context, k) =>
                /\ k \in DOMAIN accumulated_context'
                /\ IsObj(accumulated_context'[k])
                /\ NestedMergedAsClaimed(NextContext[k].obj,
                                         NestedBefore(accumulated_context, k),
                                         accumulated_context'[k].obj)]_vars

(***************************************************************************)
(* C22 (amended): for an ordinary source key k whose value is an object,   *)
(* the merge recurses into the object the target holds at k, or creates it *)
(* as a copy of the source object when k is absent; a value of the target  *)
(* at k that is no object is left as it is.  Afterwards, when no object of *)
(* the entry holds both a key and its `+` form, the nested target object   *)
(* holds every ordinary key of the source object: with the source's value  *)
(* if it did not hold the key and the value is a scalar or an array, with  *)
(* its own earlier value if it held the key and one of the two values is   *)
(* no object, and merged in this same way if the source's value is an      *)
(* object to be merged into an object or created; for a nested             *)
(* accumulation key `+j` it holds no key `+j`, and at j an array that ends *)
(* with the new accumulated item, unless it held at j a value that is no   *)
(* array, which it keeps.                                                  *)
(***************************************************************************)
RECURSIVE NoSiblingClash(_)
NoSiblingClash(s) ==
    /\ \A j \in PlusKeys(s) : Tail(j) \notin DOMAIN s
    /\ \A j \in ObjectKeys(s) : NoSiblingClash(s[j].obj)

RECURSIVE NestedMerged(_, _, _)
NestedMerged(s, b, a) ==
    /\ \A j \in OrdinaryKeys(s) :
          /\ j \in DOMAIN a
          /\ IF ~IsObj(s[j]) THEN a[j] = IF j \in DOMAIN b THEN b[j] ELSE s[j]
             ELSE IF ~NestedTarget(b, j) THEN a[j] = b[j]
             ELSE /\ IsObj(a[j])
                  /\ NestedMerged(s[j].obj,
                                  IF j \in DOMAIN b THEN b[j].obj ELSE s[j].obj,
                                  a[j].obj)
    /\ \A j \in PlusKeys(s) :
          /\ j \notin DOMAIN a
          /\ Tail(j) \in DOMAIN a
          /\ IF Tail(j) \in DOMAIN b /\ ~IsArr(b[Tail(j)])
             THEN a[Tail(j)] = b[Tail(j)]
             ELSE LET old == IF Tail(j) \in DOMAIN b THEN b[Tail(j)].arr ELSE <<>>
                  IN  /\ IsArr(a[Tail(j)])
                      /\ Len(a[Tail(j)].arr) = Len(old) + 1
                      /\ SubSeq(a[Tail(j)].arr, 1, Len(old)) = old
                      /\ IsItemOf(Last(a[Tail(j)].arr), Len(old) + 1, s[j])

C22_NestedMerge ==
    [][(Visiting /\ VisitEntry /\ NoSiblingClash(NextContext)) =>
          \A k \in ObjectKeys(NextContext) :
             /\ k \in DOMAIN accumulated_context'
             /\ IF ~NestedTarget(accumulated_context, k)
                THEN accumulated_context'[k] = accumulated_context[k]
                ELSE /\ IsObj(accumulated_context'[k])
                     /\ NestedMerged(NextContext[k].obj,
                                     IF k \in DOMAIN accumulated_context
                                     THEN accumulated_context[k].obj
                                     ELSE NextContext[k].obj,
                                     accumulated_context'[k].obj)]_vars

\* {"a":{"id":1}} then {"a":{"id":3,"rows":4}} then {"a":{"+rows":2,
\* "id":{"a":1}}} have been merged: id is the first entry's, rows the second
\* entry's, and the third entry's item was dropped.
C22_Witness ==
    /\ pc = "group"
    /\ visited = 3
    /\ ContextAt(1) = Ctx1(KeyA, Obj(Ctx1(KeyId, Num(1))))
    /\ ContextAt(2) = Ctx1(KeyA, Obj(Ctx2(KeyId, Num(3), KeyRows, Num(4))))
    /\ ContextAt(3) = Ctx1(KeyA, Obj(Ctx2(PlusRows, Num(2), KeyId, Obj(Ctx1(KeyA, Num(1))))))
    /\ accumulated_context = Ctx1(KeyA, Obj(Ctx2(KeyId, Num(1), KeyRows, Num(4))))

(***************************************************************************)
(* Merge conflicts                                                         *)
(***************************************************************************)
\* `+k` of the entry meets a value at the bare key that is no array; an
\* object of the entry meets a value that is no object.
ShapeConflicts(source, target) ==
    {k \in PlusKeys(source) : Tail(k) \in DOMAIN target /\ ~IsArr(target[Tail(k)])}
ObjectConflicts(source, target) ==
    {k \in ObjectKeys(source) : k \in DOMAIN target /\ ~IsObj(target[k])}

\* Every key of the entry has had its turn: an ordinary key is in the
\* target, with the entry's value if it is new and no object; a `+` key is
\* not, and its bare key is.
AllKeysMerged(source, before, after) ==
    /\ \A j \in OrdinaryKeys(source) :
          /\ j \in DOMAIN after
          /\ (j \notin DOMAIN before /\ ~IsObj(source[j])
                /\ (<<43>> \o j) \notin DOMAIN source) => after[j] = source[j]
    /\ \A j \in PlusKeys(source) :
          /\ (<<43>> \o j) \notin DOMAIN source => j \notin DOMAIN after
          /\ Tail(j) \in DOMAIN after

EmailCount(emails, id) == Len(EmailsIn(emails, id))

\* The groups compose_emails is done with: one e-mail at least, one per
\* entry at most, exactly one if the first entry has an accumulation key,
\* one per entry if no entry has one.
ComposedCounts ==
    \A id \in DOMAIN email_entries :
        Composed(id) /\ id # (IF pc = "group" THEN cur ELSE NoGroup) =>
            /\ EmailCount(composed_emails, id) \in 1..Len(email_entries[id])
            /\ HasAccumulationKey(email_entries[id][1].entry.context)
                  => EmailCount(composed_emails, id) = 1
            /\ (\A i \in DOMAIN email_entries[id] :
                    ~HasAccumulationKey(email_entries[id][i].entry.context))
                  => EmailCount(composed_emails, id) = Len(email_entries[id])

(***************************************************************************)
(* C25: a group of n entries yields n e-mails when no accumulation key is  *)
(* detected, and k when the first detection happens while the k-th entry   *)
(* is merged: as long as the mode is Single every merged entry has its     *)
(* e-mail; the entry that switches the mode and the entries after it get   *)
(* none; the end of the group adds one e-mail in Batch mode and none in    *)
(* Single mode.  A group whose first entry has an accumulation key yields  *)
(* one e-mail, and no group yields none.                                   *)
(***************************************************************************)
C25_EmailsPerGroup ==
    [][/\ (Visiting /\ VisitEntry) =>
             /\ email_compose_method' = "Single"
                   => /\ email_compose_method = "Single"
                      /\ EmailCount(composed_emails', cur) = visited + 1
             /\ (email_compose_method = "Single" /\ email_compose_method' = "Batch")
                   => /\ EmailCount(composed_emails, cur) = visited
                      /\ composed_emails' = composed_emails
             /\ email_compose_method = "Batch"
                   => /\ email_compose_method' = "Batch"
                      /\ composed_emails' = composed_emails
                      /\ EmailCount(composed_emails, cur) < visited
       /\ GroupEnd =>
             EmailCount(composed_emails', cur) =
                IF email_compose_method = "Single"
                THEN Len(CurGroup)
                ELSE EmailCount(composed_emails, cur) + 1
       /\ ComposedCounts']_vars

\* A group of three entries whose third entry brought the first
\* accumulation key has yielded three e-mails: two single ones and the batch.
C25_Witness ==
    /\ pc = "done"
    /\ \E id \in DOMAIN email_entries :
          /\ Len(email_entries[id]) = 3
          /\ ~HasAccumulationKey(email_entries[id][1].entry.context)
          /\ ~HasAccumulationKey(email_entries[id][2].entry.context)
          /\ HasAccumulationKey(email_entries[id][3].entry.context)
          /\ EmailCount(composed_emails, id) = 3
          /\ EmailsIn(composed_emails, id)[3].context # email_entries[id][3].entry.context

(***************************************************************************)
(* A group composed on its own                                             *)
(***************************************************************************)
\* The e-mails of the group when nothing but the group is there: its
\* entries are merged one after the other from the first entry's context
\* and Single mode on.
RECURSIVE GroupFold(_, _, _, _, _, _)
GroupFold(id, group, i, context, method, emails) ==
    IF i > Len(group)
    THEN IF method = "Batch"
         THEN Append(emails, [id |-> id, header |-> group[1].entry.email,
                              context |-> context])
         ELSE emails
    ELSE LET r == copy_and_accumulate(group[i].entry.context, context, method)
         IN  GroupFold(id, group, i + 1, r.target, r.method,
                       IF r.method = "Single"
                       THEN Append(emails, OwnEmail(id, group[i]))
                       ELSE emails)

GroupAlone(id, group) ==
    GroupFold(id, group, 1, group[1].entry.context, "Single", <<>>)

(***************************************************************************)
(* C26: groups do not interfere.  Every group starts in Single mode,       *)
(* whatever the mode the group before ended in; while a group is composed  *)
(* the e-mails of the other groups stay as they are; and the e-mails a     *)
(* group has when it ends, their number, headers and contexts, are those   *)
(* of the group composed on its own, whichever groups came before it.      *)
(***************************************************************************)
C26_GroupsDoNotInterfere ==
    [][/\ GroupStart => email_compose_method' = "Single"
       /\ (VisitEntry \/ GroupEnd) =>
             \A id \in DOMAIN email_entries \ {cur} :
                EmailsIn(composed_emails', id) = EmailsIn(composed_emails, id)
       /\ GroupEnd =>
             EmailsIn(composed_emails', cur) = GroupAlone(cur, CurGroup)]_vars

\* A group that ended in Batch mode was composed first, and a group after
\* it without accumulation keys has one e-mail per entry.
C26_Witness ==
    /\ pc = "done"
    /\ composed_emails # <<>>
    /\ LET batch == composed_emails[1].id
           single == Last(composed_emails).id
       IN  /\ batch # single
           /\ HasAccumulationKey(email_entries[batch][1].entry.context)
           /\ Len(email_entries[single]) = 2
           /\ EmailCount(composed_emails, single) = 2

RECURSIVE HasDoubledMarker(_)
HasDoubledMarker(m) ==
    \E k \in DOMAIN m :
        \/ HasPlus(k) /\ HasPlus(Tail(k))
        \/ IsObj(m[k]) /\ HasDoubledMarker(m[k].obj)

EntriesNotLoaded ==
    /\ unparsed_entries = <<>>
    /\ parse_errors = <<>>
    /\ entries_pool = <<>>
    /\ pc = "raw"
    /\ NotMapped

\* EntryError (two of its variants), anyhow::Error and ErrorWrapper<E>(E).
\* The field named is given by its bytes ("id" here).
MissingEmailSection == [entry_error |-> "MissingEmailSection"]
MissingField(field) == [entry_error |-> "MissingField", field |-> field]
anyhow(msg) == [anyhow |-> msg]
ErrorWrapper(e) == [wrapped |-> e]
IsErrorWrapper(e) == DOMAIN e = {"wrapped"}

\* ErrorEvent(DateTime<Utc>, Box<dyn Error>); the two From implementations:
\* an error is boxed as it is, a wrapped anyhow error is taken out of its
\* wrapper first (error.0.into()).
ErrorEvent(time, error) == <<time, error>>
IntoErrorEvent(now, error) ==
    IF IsErrorWrapper(error) THEN ErrorEvent(now, error.wrapped)
    ELSE ErrorEvent(now, error)

\* ErrorReport::new(): Default::default()
ErrorReport_new == [context |-> None, errors |-> <<>>]

\* add_error with the new event put first.
add_error_in_front(self, now, error) ==
    [self EXCEPT !.errors = <<IntoErrorEvent(now, error)>> \o @]

\* self.errors.push(error.into()); self
add_error(self, now, error) ==
    [self EXCEPT !.errors = Append(@, IntoErrorEvent(now, error))]

\* self.context = Some(context); self
set_context(self, ctx) == [self EXCEPT !.context = Some(ctx)]

\* self.context.as_deref()
context(self) == self.context

\* self.errors.as_slice()
errors(self) == self.errors

\* The errors and contexts the calls are made with, the readings of the
\* clock (chrono::offset::Utc::now()), and the number of calls made.
MaxCalls == 3
ReportErrors ==
    {MissingEmailSection, MissingField(KeyId), ErrorWrapper(anyhow(KeyA))}
ReportContexts == {KeyA, KeyRows}
Clock == {0, 1}

\* let error_report = ErrorReport::new()
InitReport ==
    /\ error_report = ErrorReport_new
    /\ calls = <<>>
    /\ EntriesNotLoaded
    /\ RenderNotCalled
    /\ RelativePathNotUsed
    /\ SendNotUsed

\* error_report = error_report.add_error(error)
AddError ==
    /\ Len(calls) < MaxCalls
    /\ \E error \in ReportErrors, now \in Clock :
          /\ error_report' = add_error(error_report, now, error)
          /\ calls' = Append(calls, [add_error |-> error])
    /\ UNCHANGED outside_report

\* error_report = error_report.set_context(context)
SetContext ==
    /\ Len(calls) < MaxCalls
    /\ \E ctx \in ReportContexts :
          /\ error_report' = set_context(error_report, ctx)
          /\ calls' = Append(calls, [set_context |-> ctx])
    /\ UNCHANGED outside_report

NextReport == AddError \/ SetContext

SpecReport == InitReport /\ [][NextReport]_vars

\* The errors the add_error calls were given, in the order of the calls, a
\* wrapped error counted as the error it wraps; and the contexts the
\* set_context calls were given.
RECURSIVE AddedErrors(_)
AddedErrors(cs) ==
    IF cs = <<>> THEN <<>>
    ELSE LET c == cs[1]
         IN  (IF DOMAIN c = {"add_error"}
              THEN <<IF IsErrorWrapper(c.add_error) THEN c.add_error.wrapped
                     ELSE c.add_error>>
              ELSE <<>>) \o AddedErrors(Tail(cs))
RECURSIVE LastSetContext(_)
LastSetContext(cs) ==
    IF cs = <<>> THEN None
    ELSE LET c == cs[Len(cs)]
         IN  IF DOMAIN c = {"set_context"} THEN Some(c.set_context)
             ELSE LastSetContext(SubSeq(cs, 1, Len(cs) - 1))
ReportedErrors == [i \in DOMAIN errors(error_report) |-> errors(error_report)[i][2]]

\* C21: after any sequence of add_error and set_context calls, errors()
\* holds the added errors, each once, in the order of the add_error calls,
\* whether an EntryError or a wrapped anyhow error, and context() is the
\* context set last, or None when set_context was never called; a step of
\* add_error leaves context() as it was and a step of set_context leaves
\* errors() as it was.
C21_ErrorsInOrderContextLast ==
    /\ [](/\ ReportedErrors = AddedErrors(calls)
          /\ context(error_report) = LastSetContext(calls))
    /\ [][/\ AddError => context(error_report)' = context(error_report)
          /\ SetContext => errors(error_report)' = errors(error_report)]_vars

\* A context was set, then an EntryError and a wrapped anyhow error were
\* added, in that order, a first error being there already.
C21_Witness ==
    /\ Len(calls) = 3
    /\ calls[1] = [add_error |-> MissingEmailSection]
    /\ calls[2] = [set_context |-> KeyRows]
    /\ calls[3] = [add_error |-> ErrorWrapper(anyhow(KeyA))]
    /\ ReportedErrors = <<MissingEmailSection, anyhow(KeyA)>>
    /\ context(error_report) = Some(KeyRows)

(***************************************************************************)
(* render with a forced or automatic template extension                    *)
(***************************************************************************)
ExtTxt == <<116, 120, 116>>
TemplateExtensions == {ExtensionAuto, ExtensionForce(ExtHtml), ExtensionForce(ExtTxt)}
TeraTexts ==
    {Body, Marker(NameTera) \o Body, Marker(NameHandlebars) \o Body,
     Marker(NameFoo) \o Body}

\* render has been called, with any TemplateExtension.
InitTera ==
    /\ template_data \in {TemplateData(t, p) : t \in TeraTexts, p \in FilePaths}
    /\ context_data \in RenderContexts
    /\ engine_detection \in DetectionMethods
    /\ template_extension \in TemplateExtensions
    /\ template = Unset
    /\ in_memory_template = Unset
    /\ engine_input = Unset
    /\ result = Unset
    /\ EntriesNotLoaded
    /\ RelativePathNotUsed
    /\ ErrorReportNotUsed
    /\ SendNotUsed
    /\ NoCalls

SpecTera == InitTera /\ [][NextRender]_vars

\* The names for which Tera escapes its output (its default
\* autoescape_on): those ending in .html, .htm or .xml.
EndsWith(s, suffix) ==
    /\ Len(s) >= Len(suffix)
    /\ SubSeq(s, Len(s) - Len(suffix) + 1, Len(s)) = suffix
AutoescapeSuffixes ==
    {<<46, 104, 116, 109, 108>>, <<46, 104, 116, 109>>, <<46, 120, 109, 108>>}
Escaped(name) == \E suffix \in AutoescapeSuffixes : EndsWith(name, suffix)

\* C24: when Tera has registered the primary template, with no forced
\* extension the in-memory name ends in an extension for which Tera escapes
\* HTML output, whatever the extension of the source path, a path whose
\* extension tera selected the engine included; with a forced extension the
\* name ends in that extension.
C24_InMemoryNameEscapes ==
    in_memory_template # Unset
        => /\ template_extension = ExtensionAuto => Escaped(in_memory_template)
           /\ template_extension.extension = "Force"
                 => in_memory_template = InMemoryTemplate(template_extension.ext)

(***************************************************************************)
(* MessageBuilder and Message (src/src/send.rs)                            *)
(***************************************************************************)
\* lettre's parse of an address: the address as it is, or an AddressError
\* (an address without @ here).
ParseAddress(address) ==
    IF \E i \in DOMAIN address : address[i] = 64 THEN Ok(address)
    ELSE Err("AddressError")

\* SinglePart::builder().header(content_type).header(Base64).body(body)
SinglePart(content_type, body) ==
    [content_type |-> content_type, encoding |-> "base64", body |-> body]

\* MultiPart::html_with_images of an HTML text that refers to no image:
\* the related multipart of the one HTML part (143-149, 162).
html_with_images(html_contents, resources_path) ==
    Ok([related |-> <<SinglePart("text/html", html_contents)>>])

\* Message::new(): Self::default()
Message_new ==
    [message_builder |-> [from |-> None, subject |-> None],
     content |-> None, alternative_content |-> None, attachments |-> None]

\* Message::from, Message::subject, Message::content,
\* Message::alternative_content
Message_from(self, address) ==
    LET parsed == ParseAddress(address)
    IN  IF IsOk(parsed)
        THEN Ok([self EXCEPT !.message_builder.from = Some(parsed.ok)])
        ELSE Err("Unable to parse from address(es)")
Message_subject(self, subject) ==
    [self EXCEPT !.message_builder.subject = Some(subject)]
Message_content(self, content, resources_path) ==
    LET part == html_with_images(content, resources_path)
    IN  IF IsOk(part) THEN Ok([self EXCEPT !.content = Some(part.ok)])
        ELSE part
Message_alternative_content(self, content) ==
    [self EXCEPT !.alternative_content = Some(SinglePart("text/plain", content))]

\* MessageBuilder::new(): Self::default().  The setters that are never
\* called below leave their fields None.
MessageBuilder_new ==
    [from |-> None, reply_to_addresses |-> None, in_reply_to |-> None,
     to_addresses |-> None, cc_addresses |-> None, bcc_addresses |-> None,
     subject |-> None, content |-> None, resources_path |-> None,
     alternative_content |-> None, attachments |-> None]

\* MessageBuilder::build, for a builder whose reply_to_addresses,
\* in_reply_to, to_addresses, cc_addresses, bcc_addresses and attachments
\* are None.
MessageBuilder_build(self) ==
    LET m0 == Ok(Message_new)
        m1 == IF self.from # None THEN Message_from(m0.ok, self.from[1]) ELSE m0
        m2 == IF ~IsOk(m1) \/ self.subject = None THEN m1
              ELSE Ok(Message_subject(m1.ok, self.subject[1]))
        m3 == IF ~IsOk(m2) \/ self.content = None THEN m2
              ELSE Message_content(m2.ok, self.content[1], self.resources_path)
        m4 == IF ~IsOk(m3) \/ self.alternative_content = None THEN m3
              ELSE Ok(Message_alternative_content(m3.ok, self.alternative_content[1]))
    IN  m4

\* The values the setters are called with.
Addresses == {<<97, 64, 98>>, <<97>>}
Subjects == {<<72, 105>>}
HtmlContents == {Body, <<60, 98, 62, 72, 105, 60, 47, 98, 62>>}
PlainContents == {<<72, 105>>, <<72, 111>>}
ResourcePaths == {None, Some(<<47, 116>>)}

\* let mut message_builder = MessageBuilder::new()
InitMessage ==
    /\ message_builder = MessageBuilder_new
    /\ message = Unset
    /\ calls = <<>>
    /\ smtp_builder = Unset
    /\ smtp_info = Unset
    /\ connection = Unset
    /\ returned = Unset
    /\ transmitted = Unset
    /\ EntriesNotLoaded
    /\ RenderNotCalled
    /\ RelativePathNotUsed
    /\ ErrorReportNotUsed

\* message_builder.from(address)
From ==
    /\ Len(calls) < MaxCalls
    /\ \E address \in Addresses :
          /\ message_builder' = [message_builder EXCEPT !.from = Some(address)]
          /\ calls' = Append(calls, [from |-> address])
    /\ UNCHANGED <<message, smtp_builder, smtp_info, connection, returned,
                   transmitted, outside_send>>

\* message_builder.subject(subject)
Subject ==
    /\ Len(calls) < MaxCalls
    /\ \E subject \in Subjects :
          /\ message_builder' = [message_builder EXCEPT !.subject = Some(subject)]
          /\ calls' = Append(calls, [subject |-> subject])
    /\ UNCHANGED <<message, smtp_builder, smtp_info, connection, returned,
                   transmitted, outside_send>>

\* message_builder.content(content, resources_path)
Content ==
    /\ Len(calls) < MaxCalls
    /\ \E content \in HtmlContents, resources_path \in ResourcePaths :
          /\ message_builder' = [message_builder EXCEPT !.content = Some(content),
                                                        !.resources_path = resources_path]
          /\ calls' = Append(calls, [content |-> content,
                                     resources_path |-> resources_path])
    /\ UNCHANGED <<message, smtp_builder, smtp_info, connection, returned,
                   transmitted, outside_send>>

\* message_builder.alternative_content(content)
AlternativeContent ==
    /\ Len(calls) < MaxCalls
    /\ \E content \in PlainContents :
          /\ message_builder' = [message_builder EXCEPT !.content = Some(content)]
          /\ calls' = Append(calls, [alternative_content |-> content])
    /\ UNCHANGED <<message, smtp_builder, smtp_info, connection, returned,
                   transmitted, outside_send>>

\* let message = message_builder.build()
Build ==
    /\ message_builder # Unset
    /\ message' = MessageBuilder_build(message_builder)
    /\ UNCHANGED <<message_builder, calls, smtp_builder, smtp_info, connection,
                   returned, transmitted, outside_send>>

NextMessage == From \/ Subject \/ Content \/ AlternativeContent \/ Build

SpecMessage == InitMessage /\ [][NextMessage]_vars

\* The argument of the last call of a setter, if any.
RECURSIVE LastCall(_, _)
LastCall(cs, setter) ==
    IF cs = <<>> THEN None
    ELSE LET c == cs[Len(cs)]
         IN  IF setter \in DOMAIN c THEN Some(c[setter])
             ELSE LastCall(SubSeq(cs, 1, Len(cs) - 1), setter)
\* The HTML text and the plain text of a Message.
HtmlOf(msg) == IF msg.content = None THEN None ELSE Some(msg.content[1].related[1].body)
AlternativeOf(msg) ==
    IF msg.alternative_content = None THEN None
    ELSE Some(msg.alternative_content[1].body)

\* C28: a Message that build() gives has the HTML content of the last
\* content() call and the alternative part of the last
\* alternative_content() call, and a call of alternative_content leaves the
\* builder's HTML content as it was.
C28_AlternativeContentSetsOnlyAlternative ==
    [][/\ (Build /\ IsOk(message'))
            => /\ HtmlOf(message'.ok) = LastCall(calls, "content")
               /\ AlternativeOf(message'.ok) = LastCall(calls, "alternative_content")
       /\ AlternativeContent => message_builder'.content = message_builder.content]_vars

(***************************************************************************)
(* SmtpConnectionBuilder (src/src/send.rs)                                 *)
(***************************************************************************)
\* Authentication
Authentication == {"NoAuth", "Tls", "Starttls"}

Localhost == <<108, 111, 99, 97, 108, 104, 111, 115, 116>>

\* SmtpConnectionBuilder::new()
SmtpConnectionBuilder_new ==
    [relay |-> Localhost, port |-> None, auth |-> "NoAuth", timeout |-> None]

\* The port of an authentication method (355-359); a Duration is its
\* number of seconds.
DefaultPort(auth) ==
    CASE auth = "NoAuth" -> 25
      [] auth = "Tls" -> 465
      [] auth = "Starttls" -> 587

\* build with the port of NoAuth for every builder without a port.
SmtpConnectionBuilder_build_port_25(self) ==
    [port |-> IF self.port # None THEN self.port[1] ELSE 25,
     auth |-> self.auth,
     relay |-> self.relay,
     timeout |-> IF self.timeout # None THEN self.timeout[1] ELSE 60]

\* SmtpConnectionBuilder::build: SmtpConnectionInfo { .. }
SmtpConnectionBuilder_build(self) ==
    [port |-> IF self.port # None THEN self.port[1] ELSE DefaultPort(self.auth),
     auth |-> self.auth,
     relay |-> self.relay,
     timeout |-> IF self.timeout # None THEN self.timeout[1] ELSE 60]

\* The builder after build(self) has taken it.
Moved == [moved |-> TRUE]

\* The values the setters are called with.
Relays == {<<109, 120>>, Localhost}
Ports == {25, 2525}
Timeouts == {5, 60}

\* let smtp_builder = SmtpConnectionBuilder::new()
InitSmtp ==
    /\ smtp_builder = SmtpConnectionBuilder_new
    /\ smtp_info = Unset
    /\ calls = <<>>
    /\ message_builder = Unset
    /\ message = Unset
    /\ connection = Unset
    /\ returned = Unset
    /\ transmitted = Unset
    /\ EntriesNotLoaded
    /\ RenderNotCalled
    /\ RelativePathNotUsed
    /\ ErrorReportNotUsed

\* smtp_builder = smtp_builder.auth(auth)
SmtpAuth ==
    /\ smtp_builder # Moved
    /\ Len(calls) < MaxCalls
    /\ \E auth \in Authentication :
          /\ smtp_builder' = [smtp_builder EXCEPT !.auth = auth]
          /\ calls' = Append(calls, [auth |-> auth])
    /\ UNCHANGED <<smtp_info, message_builder, message, connection, returned,
                   transmitted, outside_send>>

\* smtp_builder = smtp_builder.port(port)
SmtpPort ==
    /\ smtp_builder # Moved
    /\ Len(calls) < MaxCalls
    /\ \E port \in Ports :
          /\ smtp_builder' = [smtp_builder EXCEPT !.port = Some(port)]
          /\ calls' = Append(calls, [port |-> port])
    /\ UNCHANGED <<smtp_info, message_builder, message, connection, returned,
                   transmitted, outside_send>>

\* smtp_builder = smtp_builder.relay(relay)
SmtpRelay ==
    /\ smtp_builder # Moved
    /\ Len(calls) < MaxCalls
    /\ \E relay \in Relays :
          /\ smtp_builder' = [smtp_builder EXCEPT !.relay = relay]
          /\ calls' = Append(calls, [relay |-> relay])
    /\ UNCHANGED <<smtp_info, message_builder, message, connection, returned,
                   transmitted, outside_send>>

\* smtp_builder = smtp_builder.timeout(timeout)
SmtpTimeout ==
    /\ smtp_builder # Moved
    /\ Len(calls) < MaxCalls
    /\ \E timeout \in Timeouts :
          /\ smtp_builder' = [smtp_builder EXCEPT !.timeout = Some(timeout)]
          /\ calls' = Append(calls, [timeout |-> timeout])
    /\ UNCHANGED <<smtp_info, message_builder, message, connection, returned,
                   transmitted, outside_send>>

\* let smtp_info = smtp_builder.build()
SmtpBuild ==
    /\ smtp_builder # Moved
    /\ smtp_info' = SmtpConnectionBuilder_build(smtp_builder)
    /\ smtp_builder' = Moved
    /\ UNCHANGED <<calls, message_builder, message, connection, returned,
                   transmitted, outside_send>>

NextSmtp == SmtpAuth \/ SmtpPort \/ SmtpRelay \/ SmtpTimeout \/ SmtpBuild

SpecSmtp == InitSmtp /\ [][NextSmtp]_vars

\* The argument of the last call of a setter, or a default.
LastOr(setter, default) ==
    IF LastCall(calls, setter) = None THEN default ELSE LastCall(calls, setter)[1]

\* C30: what build() returns has the port set last, or without a port call
\* the default port of the authentication method set last (NoAuth without
\* an auth call): 25, 465, 587; the timeout set last or 60 seconds; the
\* relay set last or localhost; the authentication method set last or
\* NoAuth.
C30_BuildTakesLastOrDefault ==
    smtp_info # Unset
        => /\ smtp_info.auth = LastOr("auth", "NoAuth")
           /\ smtp_info.port =
                  LastOr("port", CASE smtp_info.auth = "NoAuth" -> 25
                                   [] smtp_info.auth = "Tls" -> 465
                                   [] smtp_info.auth = "Starttls" -> 587)
           /\ smtp_info.timeout = LastOr("timeout", 60)
           /\ smtp_info.relay = LastOr("relay", Localhost)

\* Tls, then a relay, then Starttls, no port: built with port 587.
C30_Witness ==
    /\ calls = <<[auth |-> "Tls"], [relay |-> <<109, 120>>], [auth |-> "Starttls"]>>
    /\ smtp_info # Unset
    /\ smtp_info.port = 587
    /\ smtp_info.timeout = 60

(***************************************************************************)
(* Connection (src/src/send.rs)                                            *)
(***************************************************************************)
\* The SmtpTransport that lettre builds: builder_dangerous (no TLS), relay
\* (TLS wrapper) or starttls_relay (STARTTLS required), with the
\* credentials and the port given to the builder.
SmtpTransport(relay, tls, credentials, port) ==
    [relay |-> relay, tls |-> tls, credentials |-> credentials, port |-> port]

NoConnection == "No connection was established."

\* Connection::new
Connection_new(relay_server, port, auth) ==
    [relay_server |-> relay_server, port |-> port, auth |-> auth, connection |-> None]

\* The transport of establish (704-733): relay and starttls_relay may fail
\* (relay_ok), builder_dangerous does not and is given no credentials.
EstablishTransport(self, credentials, relay_ok) ==
    CASE self.auth = "NoAuth" ->
             Ok(SmtpTransport(self.relay_server, "none", None, self.port))
      [] self.auth = "Tls" ->
             IF relay_ok
             THEN Ok(SmtpTransport(self.relay_server, "wrapper", credentials, self.port))
             ELSE Err("Failed to establish TLS connection with the provided mail relay")
      [] self.auth = "Starttls" ->
             IF relay_ok
             THEN Ok(SmtpTransport(self.relay_server, "required", credentials, self.port))
             ELSE Err("Failed to establish STARTTLS connection with the provided mail relay")

\* establish that forgets the connection when it fails.
Connection_establish_forgetting(self, credentials, relay_ok) ==
    LET built == EstablishTransport(self, credentials, relay_ok)
    IN  IF IsOk(built)
        THEN [self |-> [self EXCEPT !.connection = Some(built.ok)], returned |-> Ok(<<>>)]
        ELSE [self |-> [self EXCEPT !.connection = None], returned |-> built]

\* Connection::establish: the Connection after the call and what the call
\* returned.
Connection_establish(self, credentials, relay_ok) ==
    LET built == EstablishTransport(self, credentials, relay_ok)
    IN  IF IsOk(built)
        THEN [self |-> [self EXCEPT !.connection = Some(built.ok)], returned |-> Ok(<<>>)]
        ELSE [self |-> self, returned |-> built]

\* Connection::send: what the transport was given, if anything, and what
\* the call returned; sent tells whether the transport's send succeeded.
Connection_send(self, msg, sent) ==
    IF self.connection = None
    THEN [given |-> <<>>, returned |-> Err(NoConnection)]
    ELSE [given |-> <<[transport |-> self.connection[1], msg |-> msg]>>,
          returned |-> IF sent THEN Ok(<<>>) ELSE Err("transport error")]

\* The values the calls are made with.
RelayServers == {<<109, 120>>}
Credentials == {None, Some(<<117, 58, 112>>)}
LettreMessages == {<<109, 49>>, <<109, 50>>}

\* let mut connection = Connection::new(relay_server, port, auth)
InitConnection ==
    /\ connection \in {Connection_new(r, DefaultPort(a), a) :
                          r \in RelayServers, a \in Authentication}
    /\ returned = Unset
    /\ transmitted = <<>>
    /\ calls = <<>>
    /\ message_builder = Unset
    /\ message = Unset
    /\ smtp_builder = Unset
    /\ smtp_info = Unset
    /\ EntriesNotLoaded
    /\ RenderNotCalled
    /\ RelativePathNotUsed
    /\ ErrorReportNotUsed

\* connection.establish(credentials)
Establish ==
    /\ connection # Unset
    /\ Len(calls) < MaxCalls
    /\ \E credentials \in Credentials, relay_ok \in BOOLEAN :
          LET r == Connection_establish(connection, credentials, relay_ok)
          IN  /\ connection' = r.self
              /\ returned' = r.returned
              /\ calls' = Append(calls, [establish |-> credentials,
                                         returned |-> r.returned])
    /\ UNCHANGED <<transmitted, message_builder, message, smtp_builder, smtp_info,
                   outside_send>>

\* connection.send(msg)
Send ==
    /\ connection # Unset
    /\ Len(calls) < MaxCalls
    /\ \E msg \in LettreMessages, sent \in BOOLEAN :
          LET r == Connection_send(connection, msg, sent)
          IN  /\ transmitted' = transmitted \o r.given
              /\ returned' = r.returned
              /\ calls' = Append(calls, [send |-> msg, returned |-> r.returned])
    /\ UNCHANGED <<connection, message_builder, message, smtp_builder, smtp_info,
                   outside_send>>

NextConnection == Establish \/ Send

SpecConnection == InitConnection /\ [][NextConnection]_vars

\* The credentials of the last establish call that returned Ok, if any.
RECURSIVE LastEstablished(_)
LastEstablished(cs) ==
    IF cs = <<>> THEN None
    ELSE LET c == cs[Len(cs)]
         IN  IF "establish" \in DOMAIN c /\ IsOk(c.returned) THEN Some(c.establish)
             ELSE LastEstablished(SubSeq(cs, 1, Len(cs) - 1))
\* The transport that an establish call with these credentials builds for
\* the Connection's authentication method.
TransportOf(credentials) ==
    [relay |-> connection.relay_server,
     port |-> connection.port,
     tls |-> CASE connection.auth = "NoAuth" -> "none"
               [] connection.auth = "Tls" -> "wrapper"
               [] connection.auth = "Starttls" -> "required",
     credentials |-> IF connection.auth = "NoAuth" THEN None ELSE credentials]

\* C29: a send with no earlier successful establish returns the error
\* No connection was established. and gives nothing to a transport; an
\* establish that fails leaves the Connection as it was; a send after a
\* successful establish gives its message to the transport built by the
\* most recent successful establish.
C29_ConnectionProtocol ==
    [][/\ (Send /\ LastEstablished(calls) = None)
            => /\ returned' = Err(NoConnection)
               /\ transmitted' = transmitted
       /\ (Establish /\ ~IsOk(returned')) => connection' = connection
       /\ (Send /\ LastEstablished(calls) # None)
            => /\ Len(transmitted') = Len(transmitted) + 1
               /\ transmitted'[Len(transmitted')].transport =
                      TransportOf(LastEstablished(calls)[1])
               /\ transmitted'[Len(transmitted')].msg = calls'[Len(calls')].send]_vars

\* An establish with credentials succeeded, one without failed, and the
\* message sent next went to the transport with the credentials.
C29_Witness ==
    /\ Len(calls) = 3
    /\ calls[1] = [establish |-> Some(<<117, 58, 112>>), returned |-> Ok(<<>>)]
    /\ "establish" \in DOMAIN calls[2] /\ calls[2].establish = None
    /\ ~IsOk(calls[2].returned)
    /\ "send" \in DOMAIN calls[3]
    /\ Len(transmitted) = 1
    /\ transmitted[1].transport.credentials = Some(<<117, 58, 112>>)

====
